---- MODULE Spec2Model ----
(***************************************************************************)
(* Lesson service of the teach-niche API: LessonService over               *)
(* LessonRepository (Prisma / PostgreSQL).  The store holds lesson rows    *)
(* and purchase rows; every service operation is an action that records    *)
(* its outcome in `last`.                                                   *)
(*                                                                         *)
(* JavaScript objects with optional keys are functions whose DOMAIN is the *)
(* set of keys that are present; an optional value (a session that may be  *)
(* absent, a nullable column) is a set with at most one element.  Strings  *)
(* that are measured or trimmed are sequences of one-character strings.    *)
(***************************************************************************)
EXTENDS Integers, Sequences, FiniteSets, TLC

VARIABLES lessons, purchases, reviews, nextId, last, calls, probe

vars == <<lessons, purchases, reviews, nextId, last, calls, probe>>

---------------------------------------------------------------------------
(* Bounds of the model *)

MaxLessons == 1

(* lessons in the store that a paginated search runs over *)
MaxStoredLessons == 3

(* Program constants *)

MinPrice == 100
MaxPrice == 99999
MaxTitleLen == 200
MaxDescriptionLen == 2000

---------------------------------------------------------------------------
(* Users and sessions *)

Users == {"i1", "i2", "s1", "a1"}

UserRole == [u \in Users |->
               CASE u = "i1" -> "INSTRUCTOR"
                 [] u = "i2" -> "INSTRUCTOR"
                 [] u = "s1" -> "STUDENT"
                 [] u = "a1" -> "ADMIN"]

UserSession(u) == [uid |-> u, role |-> UserRole[u]]

Sessions == {UserSession(u) : u \in Users}

(* userSession?: UserSession -- absent for an anonymous caller *)
OptSessions == {{}} \cup {{s} : s \in Sessions}

LessonIds == 1..MaxLessons

PurchaseStatuses == {"COMPLETED", "PENDING"}

Buyers == {"s1"}

---------------------------------------------------------------------------
(* Strings *)

Whitespace == {" ", "\t", "\n"}

Rep(ch, n) == [i \in 1..n |-> ch]

SetMin(S) == CHOOSE x \in S : \A y \in S : x <= y
SetMax(S) == CHOOSE x \in S : \A y \in S : x >= y

(* String.prototype.trim *)
Trim(s) ==
  LET keep == {i \in 1..Len(s) : s[i] \notin Whitespace}
  IN  IF keep = {} THEN <<>> ELSE SubSeq(s, SetMin(keep), SetMax(keep))

Has(o, f) == f \in DOMAIN o

---------------------------------------------------------------------------
(* Errors *)

NoError == [kind |-> "ok", field |-> ""]
LessonNotFoundError == [kind |-> "NotFound", field |-> ""]
LessonNotPublishedError == [kind |-> "NotPublished", field |-> ""]
LessonPermissionDeniedError == [kind |-> "PermissionDenied", field |-> ""]
LessonValidationError(f) == [kind |-> "ValidationError", field |-> f]
InvalidLessonPriceError == [kind |-> "InvalidPrice", field |-> ""]
LessonHasPurchasesError == [kind |-> "HasPurchases", field |-> ""]
DatabaseError == [kind |-> "DatabaseError", field |-> ""]

---------------------------------------------------------------------------
(* LessonService private validators *)

(* mutant: the bounds taken as exclusive *)
validatePrice_ExclusiveBounds(price) ==
  IF price <= MinPrice \/ price >= MaxPrice
    THEN InvalidLessonPriceError
    ELSE NoError

validatePrice(price) ==
  IF price < MinPrice \/ price > MaxPrice
    THEN InvalidLessonPriceError
    ELSE NoError

(* mutant: the price validated before the title and the description *)
validateLessonInput_PriceFirst(input) ==
  IF validatePrice(input.price) # NoError THEN validatePrice(input.price)
  ELSE IF ~Has(input, "title") \/ Len(input.title) = 0 \/ Len(Trim(input.title)) = 0
    THEN LessonValidationError("title")
  ELSE IF Len(input.title) > MaxTitleLen
    THEN LessonValidationError("title")
  ELSE IF Has(input, "description") /\ Len(input.description) > 0
          /\ Len(input.description) > MaxDescriptionLen
    THEN LessonValidationError("description")
  ELSE NoError

validateLessonInput(input) ==
  IF ~Has(input, "title") \/ Len(input.title) = 0 \/ Len(Trim(input.title)) = 0
    THEN LessonValidationError("title")
  ELSE IF Len(input.title) > MaxTitleLen
    THEN LessonValidationError("title")
  ELSE IF Has(input, "description") /\ Len(input.description) > 0
          /\ Len(input.description) > MaxDescriptionLen
    THEN LessonValidationError("description")
  ELSE validatePrice(input.price)

---------------------------------------------------------------------------
(* LessonRepository *)

(* findById: the row, or null *)
findById(ls, lessonId) == IF lessonId \in DOMAIN ls THEN {ls[lessonId]} ELSE {}

(* relation `purchases` loaded by findById with includePurchases *)
PurchasesOf(ps, lessonId) == {p \in ps : p.lessonId = lessonId}

(* getLessonStats: purchases filtered by status COMPLETED *)
getLessonStats(ps, lessonId) ==
  [purchaseCount |->
     Cardinality({p \in ps : p.lessonId = lessonId /\ p.status = "COMPLETED"})]

OptField(data, f) == IF Has(data, f) THEN {data[f]} ELSE {}

(* mutant: a created lesson is published unless the data say otherwise *)
RepoCreateLesson_PublishedByDefault(data) ==
  [title |-> data.title,
   description |-> OptField(data, "description"),
   price |-> data.price,
   category |-> OptField(data, "category"),
   instructorId |-> data.instructorId,
   published |-> IF Has(data, "published") THEN data.published ELSE TRUE]

(* db.lesson.create *)
RepoCreateLesson(data) ==
  [title |-> data.title,
   description |-> OptField(data, "description"),
   price |-> data.price,
   category |-> OptField(data, "category"),
   instructorId |-> data.instructorId,
   published |-> IF Has(data, "published") THEN data.published ELSE FALSE]

(* mutant: an update that does not carry published resets the flag *)
RepoUpdateLesson_ResetsPublished(row, data) ==
  [f \in DOMAIN row |->
     IF Has(data, f)
       THEN IF f \in {"description", "category"} THEN {data[f]} ELSE data[f]
       ELSE IF f = "published" THEN FALSE ELSE row[f]]

(* db.lesson.update: keys present in data overwrite the row's columns *)
RepoUpdateLesson(row, data) ==
  [f \in DOMAIN row |->
     IF Has(data, f)
       THEN IF f \in {"description", "category"} THEN {data[f]} ELSE data[f]
       ELSE row[f]]

---------------------------------------------------------------------------
(* Search in the repository *)

ToLower(ch) == CASE ch = "A" -> "a" [] ch = "B" -> "b" [] OTHER -> ch

Lower(s) == [i \in 1..Len(s) |-> ToLower(s[i])]

(* { contains: q, mode: 'insensitive' } *)
ContainsInsensitive(s, q) ==
  \E i \in 0..(Len(s) - Len(q)) : SubSeq(Lower(s), i + 1, i + Len(q)) = Lower(q)

(* JavaScript truthiness of an optional string / number filter *)
TruthyStr(o, f) == Has(o, f) /\ Len(o[f]) > 0
TruthyNum(o, f) == Has(o, f) /\ o[f] # 0
TruthyId(o, f) == Has(o, f) /\ o[f] # ""

(* the `where` clause shared by searchLessons and countLessons *)
MatchesWhere(row, filters) ==
  /\ TruthyStr(filters, "query") =>
       \/ ContainsInsensitive(row.title, filters.query)
       \/ \E d \in row.description : ContainsInsensitive(d, filters.query)
       \/ \E c \in row.category : ContainsInsensitive(c, filters.query)
  /\ TruthyStr(filters, "category") => row.category = {filters.category}
  /\ TruthyId(filters, "instructorId") => row.instructorId = filters.instructorId
  /\ TruthyNum(filters, "minPrice") => row.price >= filters.minPrice
  /\ TruthyNum(filters, "maxPrice") => row.price <= filters.maxPrice
  /\ Has(filters, "published") => row.published = filters.published

WhereIds(ls, filters) == {l \in DOMAIN ls : MatchesWhere(ls[l], filters)}

(* rows are created in id order, so createdAt orders as the id does *)
OrderedDesc(S) ==
  IF S = {} THEN <<>>
  ELSE CHOOSE q \in [1..Cardinality(S) -> S] :
         \A i, j \in 1..Cardinality(S) : i < j => q[i] > q[j]

DefaultLimit == 20

(* findMany({ where, orderBy: createdAt desc, take, skip }) *)
RepoSearchLessons(ls, filters) ==
  LET all  == OrderedDesc(WhereIds(ls, filters))
      take == IF TruthyNum(filters, "limit") THEN filters.limit ELSE DefaultLimit
      skip == IF TruthyNum(filters, "offset") THEN filters.offset ELSE 0
      hi   == IF skip + take < Len(all) THEN skip + take ELSE Len(all)
  IN  SubSeq(all, skip + 1, hi)

(* mutant: the count query takes the page's limit as the search query does *)
countLessons_AppliesLimit(ls, filters) ==
  IF TruthyNum(filters, "limit") /\ filters.limit < Cardinality(WhereIds(ls, filters))
    THEN filters.limit
    ELSE Cardinality(WhereIds(ls, filters))

countLessons(ls, filters) == Cardinality(WhereIds(ls, filters))

---------------------------------------------------------------------------
(* LessonService: results of the operations as functions of the store *)

(* mutant: any instructor passes, not only the owner *)
canAccess_AnyInstructor(row, userSession) ==
  \E s \in userSession : s.role = "INSTRUCTOR" \/ s.role = "ADMIN"

(* canAccess in getLessonById *)
canAccess(row, userSession) ==
  \E s \in userSession : row.instructorId = s.uid \/ s.role = "ADMIN"

(* mutant: the role decides, the ownership is not looked at *)
UpdateDenied_RoleOnly(row, userSession) ==
  userSession.role # "INSTRUCTOR" /\ userSession.role # "ADMIN"

(* updateLesson: only lesson owner or admin can update *)
UpdateDenied(row, userSession) ==
  row.instructorId # userSession.uid /\ userSession.role # "ADMIN"

(* deleteLesson: only lesson owner or admin can delete *)
DeleteDenied(row, userSession) ==
  row.instructorId # userSession.uid /\ userSession.role # "ADMIN"

(* prisma.purchase.findUnique / prisma.review.findUnique on the key
   userId_lessonId: the row, or null *)
FindUniqueByUserLesson(rows, userId, lessonId) ==
  {r \in rows : r.userId = userId /\ r.lessonId = lessonId}

(* mutant: any purchase record counts, whatever its status *)
buildUserContext_AnyStatus(ps, rs, lessonId, userSession) ==
  LET purchase == FindUniqueByUserLesson(ps, userSession.uid, lessonId)
      review == FindUniqueByUserLesson(rs, userSession.uid, lessonId)
      isPurchased == purchase # {}
      hasAccess == isPurchased
  IN  [isPurchased |-> isPurchased,
       hasAccess |-> hasAccess,
       userReview |-> {[id |-> r.id, rating |-> r.rating, comment |-> r.comment] :
                         r \in review}]

buildUserContext(ps, rs, lessonId, userSession) ==
  LET purchase == FindUniqueByUserLesson(ps, userSession.uid, lessonId)
      review == FindUniqueByUserLesson(rs, userSession.uid, lessonId)
      isPurchased == purchase # {} /\ \A p \in purchase : p.status = "COMPLETED"
      hasAccess == isPurchased
  IN  [isPurchased |-> isPurchased,
       hasAccess |-> hasAccess,
       userReview |-> {[id |-> r.id, rating |-> r.rating, comment |-> r.comment] :
                         r \in review}]

transformToLessonWithStats(lessonId, row, stats) ==
  [id |-> lessonId, lesson |-> row, stats |-> stats]

(* mutant: the administrator's filter passes through as the instructor's does *)
SearchFilters_AdminPassThrough(filters, userSession) ==
  IF \E s \in userSession : s.role = "INSTRUCTOR" \/ s.role = "ADMIN"
    THEN filters
    ELSE [f \in DOMAIN filters \cup {"published"} |->
            IF f = "published" THEN TRUE ELSE filters[f]]

(* published: userSession?.role === 'INSTRUCTOR' ? filters.published : true *)
SearchFilters(filters, userSession) ==
  IF \E s \in userSession : s.role = "INSTRUCTOR"
    THEN filters
    ELSE [f \in DOMAIN filters \cup {"published"} |->
            IF f = "published" THEN TRUE ELSE filters[f]]

transformToLessonSummary(ls, ps, lessonId) ==
  [id |-> lessonId,
   title |-> ls[lessonId].title,
   price |-> ls[lessonId].price,
   purchaseCount |-> Cardinality(PurchasesOf(ps, lessonId))]

---------------------------------------------------------------------------
(* Inputs of the operations *)

EmptyObject == [f \in {} |-> {}]

ValidInputA ==
  [title |-> <<"A", "b">>, description |-> <<"d">>, price |-> 100,
   category |-> <<"c">>, instructorId |-> "i2"]

BadTitleInput == [title |-> <<" ">>, price |-> 100, instructorId |-> "i1"]

BadPriceInput == [title |-> <<"b">>, price |-> 99, instructorId |-> "i1"]

CreateInputs == {ValidInputA, BadTitleInput, BadPriceInput}

UpdateInputs ==
  { [published |-> TRUE],
    [published |-> FALSE],
    [title |-> <<"n">>, price |-> 2999],
    [price |-> 100000, published |-> TRUE] }

OtherFilters ==
  { EmptyObject,
    [query |-> <<"B">>, category |-> <<"c">>, minPrice |-> 100, maxPrice |-> 2999,
     instructorId |-> "i1", limit |-> 1, offset |-> 0] }

WithPublished(filters, pub) ==
  [f \in DOMAIN filters \cup {"published"} |->
     IF f = "published" THEN pub ELSE filters[f]]

SearchInputs ==
  OtherFilters \cup {WithPublished(o, b) : o \in OtherFilters, b \in BOOLEAN}

---------------------------------------------------------------------------
(* State *)

Idle == [pc |-> "idle"]

(* service calls in flight, suspended at an await *)
CallIds == {"c1", "c2"}

Result(op, userSession, lessonId, input, error, out) ==
  [op |-> op, session |-> userSession, lessonId |-> lessonId,
   input |-> input, error |-> error, out |-> out]

Init ==
  /\ lessons = EmptyObject
  /\ purchases = {}
  /\ reviews = {}
  /\ nextId = 1
  /\ last = Result("none", {}, 0, EmptyObject, NoError, {})
  /\ calls = [c \in CallIds |-> Idle]
  /\ probe = Idle

---------------------------------------------------------------------------
(* LessonService operations, each executed as one step *)

(* mutant: administrators may create as well *)
CreateLessonResult_AdminAllowed(input, instructorSession) ==
  IF validateLessonInput(input) # NoError THEN validateLessonInput(input)
  ELSE IF instructorSession.role # "INSTRUCTOR" /\ instructorSession.role # "ADMIN"
    THEN LessonPermissionDeniedError
  ELSE NoError

CreateLessonResult(input, instructorSession) ==
  IF validateLessonInput(input) # NoError THEN validateLessonInput(input)
  ELSE IF instructorSession.role # "INSTRUCTOR" THEN LessonPermissionDeniedError
  ELSE NoError

(* mutant: an instructorId carried in the input is the one stored *)
LessonData_InputWins(input, instructorSession) ==
  [f \in DOMAIN input \cup {"instructorId"} |->
     IF f \in DOMAIN input THEN input[f] ELSE instructorSession.uid]

(* lessonData = { ...input, instructorId: instructorSession.uid } *)
LessonData(input, instructorSession) ==
  [f \in DOMAIN input \cup {"instructorId"} |->
     IF f = "instructorId" THEN instructorSession.uid ELSE input[f]]

createLesson(input, instructorSession) ==
  LET error == CreateLessonResult(input, instructorSession)
      row   == RepoCreateLesson(LessonData(input, instructorSession))
  IN  /\ nextId <= MaxLessons
      /\ IF error = NoError
           THEN /\ lessons' = [l \in DOMAIN lessons \cup {nextId} |->
                                 IF l = nextId THEN row ELSE lessons[l]]
                /\ nextId' = nextId + 1
                /\ last' = Result("createLesson", {instructorSession}, nextId,
                                  input, NoError, {row})
           ELSE /\ last' = Result("createLesson", {instructorSession}, 0,
                                  input, error, {})
                /\ UNCHANGED <<lessons, nextId>>
      /\ UNCHANGED <<purchases, calls, probe, reviews>>

(* if (input.price !== undefined) this.validatePrice(input.price) *)
ValidateUpdates(input) ==
  IF Has(input, "price") THEN validatePrice(input.price) ELSE NoError

(* mutant: the updates validated before the permission test *)
UpdateLessonResult_ValidatesFirst(ls, lessonId, input, userSession) ==
  IF findById(ls, lessonId) = {} THEN LessonNotFoundError
  ELSE IF ValidateUpdates(input) # NoError THEN ValidateUpdates(input)
  ELSE IF UpdateDenied(ls[lessonId], userSession) THEN LessonPermissionDeniedError
  ELSE NoError

UpdateLessonResult(ls, lessonId, input, userSession) ==
  IF findById(ls, lessonId) = {} THEN LessonNotFoundError
  ELSE IF UpdateDenied(ls[lessonId], userSession) THEN LessonPermissionDeniedError
  ELSE ValidateUpdates(input)

(* mutant: the row is written before the updates are validated *)
updateLesson_WritesBeforeValidating(lessonId, input, userSession) ==
  LET error == UpdateLessonResult(lessons, lessonId, input, userSession)
  IN  /\ IF error = NoError \/ error = InvalidLessonPriceError
           THEN /\ lessons' = [lessons EXCEPT
                                 ![lessonId] = RepoUpdateLesson(@, input)]
                /\ last' = Result("updateLesson", {userSession}, lessonId, input,
                                  error,
                                  IF error = NoError
                                    THEN {RepoUpdateLesson(lessons[lessonId], input)}
                                    ELSE {})
           ELSE /\ last' = Result("updateLesson", {userSession}, lessonId, input,
                                  error, {})
                /\ UNCHANGED lessons
      /\ UNCHANGED <<purchases, nextId, calls, probe, reviews>>

updateLesson(lessonId, input, userSession) ==
  LET error == UpdateLessonResult(lessons, lessonId, input, userSession)
  IN  /\ IF error = NoError
           THEN /\ lessons' = [lessons EXCEPT
                                 ![lessonId] = RepoUpdateLesson(@, input)]
                /\ last' = Result("updateLesson", {userSession}, lessonId, input,
                                  NoError, {RepoUpdateLesson(lessons[lessonId], input)})
           ELSE /\ last' = Result("updateLesson", {userSession}, lessonId, input,
                                  error, {})
                /\ UNCHANGED lessons
      /\ UNCHANGED <<purchases, nextId, calls, probe, reviews>>

(* mutant: the access test applied to published lessons too *)
GetLessonByIdResult_AlwaysRestricted(ls, lessonId, userSession) ==
  IF findById(ls, lessonId) = {} THEN LessonNotFoundError
  ELSE IF ~canAccess(ls[lessonId], userSession) THEN LessonNotPublishedError
  ELSE NoError

(* mutant: the answer to the previous getLessonById of the same lesson is
   kept and given again *)
GetLessonByIdResult_RemembersLastAnswer(ls, lessonId, userSession) ==
  IF last.op = "getLessonById" /\ last.lessonId = lessonId THEN last.error
  ELSE IF findById(ls, lessonId) = {} THEN LessonNotFoundError
  ELSE IF ~ls[lessonId].published /\ ~canAccess(ls[lessonId], userSession)
    THEN LessonNotPublishedError
  ELSE NoError

GetLessonByIdResult(ls, lessonId, userSession) ==
  IF findById(ls, lessonId) = {} THEN LessonNotFoundError
  ELSE IF ~ls[lessonId].published /\ ~canAccess(ls[lessonId], userSession)
    THEN LessonNotPublishedError
  ELSE NoError

getLessonById(lessonId, userSession) ==
  LET error == GetLessonByIdResult(lessons, lessonId, userSession)
      lesson == transformToLessonWithStats(lessonId, lessons[lessonId],
                                           getLessonStats(purchases, lessonId))
      userContext == {buildUserContext(purchases, reviews, lessonId, s) : s \in userSession}
  IN  /\ last' = Result("getLessonById", userSession, lessonId, EmptyObject, error,
                        IF error = NoError
                          THEN {[lesson |-> lesson, userContext |-> userContext]}
                          ELSE {})
      /\ UNCHANGED <<lessons, purchases, nextId, calls, probe, reviews>>

(* what searchLessons returns: { lessons, total } (with the filters it
   handed to the repository) *)
SearchLessonsResult(ls, ps, filters, userSession) ==
  LET searchFilters == SearchFilters(filters, userSession)
      rawLessons == RepoSearchLessons(ls, searchFilters)
      total == countLessons(ls, searchFilters)
  IN  [searchFilters |-> searchFilters,
       lessons |-> [i \in 1..Len(rawLessons) |->
                      transformToLessonSummary(ls, ps, rawLessons[i])],
       total |-> total]

searchLessons(filters, userSession) ==
  /\ last' = Result("searchLessons", userSession, 0, filters, NoError,
                    {SearchLessonsResult(lessons, purchases, filters, userSession)})
  /\ UNCHANGED <<lessons, purchases, nextId, calls, probe, reviews>>

(* mutant: an administrator's delete skips the purchase test *)
DeleteLessonResult_AdminOverride(ls, ps, lessonId, userSession) ==
  IF lessonId \notin DOMAIN ls THEN LessonNotFoundError
  ELSE IF ls[lessonId].instructorId # userSession.uid /\ userSession.role # "ADMIN"
    THEN LessonPermissionDeniedError
  ELSE IF userSession.role # "ADMIN" /\ Cardinality({p \in ps : p.lessonId = lessonId}) > 0
    THEN LessonHasPurchasesError
  ELSE NoError

(* mutant: the purchase test made before the permission test *)
DeleteLessonResult_PurchasesFirst(ls, ps, lessonId, userSession) ==
  IF lessonId \notin DOMAIN ls THEN LessonNotFoundError
  ELSE IF Cardinality({p \in ps : p.lessonId = lessonId}) > 0
    THEN LessonHasPurchasesError
  ELSE IF ls[lessonId].instructorId # userSession.uid /\ userSession.role # "ADMIN"
    THEN LessonPermissionDeniedError
  ELSE NoError

DeleteLessonResult(ls, ps, lessonId, userSession) ==
  IF findById(ls, lessonId) = {} THEN LessonNotFoundError
  ELSE IF DeleteDenied(ls[lessonId], userSession) THEN LessonPermissionDeniedError
  ELSE IF Cardinality(PurchasesOf(ps, lessonId)) > 0 THEN LessonHasPurchasesError
  ELSE NoError

(* The referential action of Purchase.lessonId on the deletion of its lesson:
   the delete is refused (Restrict) or takes the purchase rows with it
   (Cascade). *)
OnDeleteWithPurchases(ls, ps, lessonId) ==
  { [lessons |-> ls, purchases |-> ps, error |-> DatabaseError],
    [lessons |-> [l \in DOMAIN ls \ {lessonId} |-> ls[l]],
     purchases |-> ps \ PurchasesOf(ps, lessonId),
     error |-> NoError] }

(* the review rows that remain once the lesson rows `ls` are what is left:
   a lesson that goes takes its reviews with it, as it takes its purchases *)
ReviewsLeft(rs, ls) == {r \in rs : r.lessonId \in DOMAIN ls}

(* mutant: deleting a row that is not there succeeds *)
RepoDeleteLesson_AbsentRowSucceeds(ls, ps, lessonId) ==
  IF lessonId \notin DOMAIN ls
    THEN {[lessons |-> ls, purchases |-> ps, error |-> NoError]}
  ELSE IF PurchasesOf(ps, lessonId) # {}
    THEN OnDeleteWithPurchases(ls, ps, lessonId)
  ELSE {[lessons |-> [l \in DOMAIN ls \ {lessonId} |-> ls[l]],
         purchases |-> ps, error |-> NoError]}

(* db.lesson.delete({ where: { id } }): the possible outcomes *)
RepoDeleteLesson(ls, ps, lessonId) ==
  IF lessonId \notin DOMAIN ls
    THEN {[lessons |-> ls, purchases |-> ps, error |-> DatabaseError]}
  ELSE IF PurchasesOf(ps, lessonId) # {}
    THEN OnDeleteWithPurchases(ls, ps, lessonId)
  ELSE {[lessons |-> [l \in DOMAIN ls \ {lessonId} |-> ls[l]],
         purchases |-> ps, error |-> NoError]}

deleteLesson(lessonId, userSession) ==
  LET error == DeleteLessonResult(lessons, purchases, lessonId, userSession)
  IN  /\ IF error = NoError
           THEN \E o \in RepoDeleteLesson(lessons, purchases, lessonId) :
                  /\ lessons' = o.lessons
                  /\ purchases' = o.purchases
                  /\ reviews' = ReviewsLeft(reviews, o.lessons)
                  /\ last' = Result("deleteLesson", {userSession}, lessonId,
                                    EmptyObject, o.error, {})
           ELSE /\ last' = Result("deleteLesson", {userSession}, lessonId,
                                  EmptyObject, error, {})
                /\ UNCHANGED <<lessons, purchases, reviews>>
      /\ UNCHANGED <<nextId, calls, probe>>

(* prisma.purchase.create: lessonId references a lesson row and
   (userId, lessonId) is unique *)
recordPurchase(userId, lessonId, status) ==
  /\ lessonId \in DOMAIN lessons
  /\ ~\E p \in purchases : p.userId = userId /\ p.lessonId = lessonId
  /\ purchases' = purchases \cup
                    {[userId |-> userId, lessonId |-> lessonId, status |-> status]}
  /\ last' = Result("recordPurchase", {UserSession(userId)}, lessonId,
                    EmptyObject, NoError, {})
  /\ UNCHANGED <<lessons, nextId, calls, probe, reviews>>

CreateLesson == \E i \in CreateInputs, s \in Sessions : createLesson(i, s)
UpdateLesson == \E l \in LessonIds, i \in UpdateInputs, s \in Sessions : updateLesson(l, i, s)
GetLessonById == \E l \in LessonIds, s \in OptSessions : getLessonById(l, s)
SearchLessons == \E f \in SearchInputs, s \in OptSessions : searchLessons(f, s)
DeleteLesson == \E l \in LessonIds, s \in Sessions : deleteLesson(l, s)
RecordPurchase == \E u \in Buyers, l \in LessonIds, st \in PurchaseStatuses : recordPurchase(u, l, st)

Next ==
  \/ CreateLesson
  \/ UpdateLesson
  \/ GetLessonById
  \/ SearchLessons
  \/ DeleteLesson
  \/ RecordPurchase

Spec == Init /\ [][Next]_vars

---------------------------------------------------------------------------
(* deleteLesson as the two database round trips it makes: the service
   awaits repository.findById, decides, and then awaits
   repository.deleteLesson; other requests run between the two. *)

DeleteLessonFind(c, lessonId, userSession) ==
  LET error == DeleteLessonResult(lessons, purchases, lessonId, userSession)
  IN  /\ calls[c].pc = "idle"
      /\ calls' = [calls EXCEPT ![c] =
                     [pc |-> IF error = NoError THEN "delete" ELSE "done",
                      lessonId |-> lessonId, session |-> userSession,
                      error |-> error]]
      /\ UNCHANGED <<lessons, purchases, nextId, last, probe, reviews>>

DeleteLessonWrite(c) ==
  /\ calls[c].pc = "delete"
  /\ \E o \in RepoDeleteLesson(lessons, purchases, calls[c].lessonId) :
       /\ lessons' = o.lessons
       /\ purchases' = o.purchases
       /\ reviews' = ReviewsLeft(reviews, o.lessons)
       /\ calls' = [calls EXCEPT ![c].pc = "done", ![c].error = o.error]
  /\ UNCHANGED <<nextId, last, probe>>

DeleteFind == \E c \in CallIds, l \in LessonIds, s \in Sessions : DeleteLessonFind(c, l, s)
DeleteWrite == \E c \in CallIds : DeleteLessonWrite(c)

NextConcurrent ==
  \/ CreateLesson
  \/ RecordPurchase
  \/ DeleteFind
  \/ DeleteWrite

SpecConcurrent == Init /\ [][NextConcurrent]_vars

---------------------------------------------------------------------------
(* updateLesson as the two database round trips it makes: the service
   awaits repository.findById, decides, and then awaits
   repository.updateLesson; other updateLesson calls run between the two. *)

ConcurrentUpdateInputs ==
  { [price |-> 2999, published |-> TRUE],
    [title |-> <<"n">>, price |-> 100] }

UpdateLessonFind(c, lessonId, input, userSession) ==
  LET error == UpdateLessonResult(lessons, lessonId, input, userSession)
  IN  /\ calls[c].pc = "idle"
      /\ calls' = [calls EXCEPT ![c] =
                     [pc |-> IF error = NoError THEN "update" ELSE "done",
                      lessonId |-> lessonId, session |-> userSession,
                      input |-> input, error |-> error]]
      /\ UNCHANGED <<lessons, purchases, reviews, nextId, last, probe>>

(* db.lesson.update({ where: { id }, data }): one UPDATE statement on the
   row as it is when the statement runs *)
UpdateLessonWrite(c) ==
  /\ calls[c].pc = "update"
  /\ IF calls[c].lessonId \in DOMAIN lessons
       THEN /\ lessons' = [lessons EXCEPT ![calls[c].lessonId] =
                             RepoUpdateLesson(@, calls[c].input)]
            /\ calls' = [calls EXCEPT ![c].pc = "done"]
       ELSE /\ calls' = [calls EXCEPT ![c].pc = "done", ![c].error = DatabaseError]
            /\ UNCHANGED lessons
  /\ UNCHANGED <<purchases, reviews, nextId, last, probe>>

UpdateFind ==
  \E c \in CallIds, l \in LessonIds, i \in ConcurrentUpdateInputs, s \in Sessions :
    UpdateLessonFind(c, l, i, s)
UpdateWrite == \E c \in CallIds : UpdateLessonWrite(c)

NextConcurrentUpdate ==
  \/ CreateLesson
  \/ UpdateFind
  \/ UpdateWrite

SpecConcurrentUpdate == Init /\ [][NextConcurrentUpdate]_vars

(* updateLesson and deleteLesson calls interleaved at their awaits *)
NextUpdateDelete ==
  \/ CreateLesson
  \/ UpdateFind
  \/ UpdateWrite
  \/ DeleteFind
  \/ DeleteWrite

SpecUpdateDelete == Init /\ [][NextUpdateDelete]_vars

---------------------------------------------------------------------------
(* createLesson and updateLesson with every field an update may carry *)

(* UpdateLessonInput: title?, description?, price?, published? *)
FieldUpdateInputs ==
  { [title |-> <<"n">>],
    [title |-> <<>>],
    [title |-> <<" ">>],
    [title |-> Rep("a", MaxTitleLen + 1)],
    [description |-> Rep("d", MaxDescriptionLen + 1)],
    [description |-> <<"d">>, price |-> MaxPrice],
    [price |-> MinPrice - 1],
    [published |-> TRUE] }

UpdateLessonFields ==
  \E l \in LessonIds, i \in FieldUpdateInputs, s \in Sessions : updateLesson(l, i, s)

NextFields ==
  \/ CreateLesson
  \/ UpdateLessonFields

SpecFields == Init /\ [][NextFields]_vars

---------------------------------------------------------------------------
(* getLessonById over purchase rows of every status and review rows *)

(* Purchase.status *)
AllPurchaseStatuses == {"PENDING", "COMPLETED", "FAILED", "REFUNDED"}

(* the review each user writes: rating and nullable comment *)
ReviewOf(userId) ==
  IF userId = "s1" THEN [rating |-> 5, comment |-> {"Excellent lesson!"}]
                   ELSE [rating |-> 1, comment |-> {}]

(* prisma.review.create by a user who has a purchase row of the lesson;
   (userId, lessonId) is unique *)
recordReview(userId, lessonId) ==
  /\ lessonId \in DOMAIN lessons
  /\ \E p \in purchases : p.userId = userId /\ p.lessonId = lessonId
  /\ ~\E r \in reviews : r.userId = userId /\ r.lessonId = lessonId
  /\ reviews' = reviews \cup
                  {[id |-> <<"review", userId, lessonId>>, userId |-> userId,
                    lessonId |-> lessonId, rating |-> ReviewOf(userId).rating,
                    comment |-> ReviewOf(userId).comment]}
  /\ last' = Result("recordReview", {UserSession(userId)}, lessonId,
                    EmptyObject, NoError, {})
  /\ UNCHANGED <<lessons, purchases, nextId, calls, probe>>

CreateLessonByOwner == \E i \in CreateInputs : createLesson(i, UserSession("i2"))
PublishLesson == \E l \in LessonIds : updateLesson(l, [published |-> TRUE], UserSession("i2"))
RecordStudentPurchase ==
  \E l \in LessonIds, st \in AllPurchaseStatuses : recordPurchase("s1", l, st)
RecordInstructorPurchase == \E l \in LessonIds : recordPurchase("i1", l, "COMPLETED")
RecordReview == \E u \in {"s1", "i1"}, l \in LessonIds : recordReview(u, l)

NextContext ==
  \/ CreateLessonByOwner
  \/ PublishLesson
  \/ RecordStudentPurchase
  \/ RecordInstructorPurchase
  \/ RecordReview
  \/ GetLessonById

SpecContext == Init /\ [][NextContext]_vars

---------------------------------------------------------------------------
(* getLessonsByInstructor *)

(* findMany({ where: { instructorId, ...(includeUnpublished ? {} :
   { published: true }) }, orderBy: { createdAt: 'desc' } }) *)
findByInstructorId(ls, instructorId, includeUnpublished) ==
  OrderedDesc({l \in DOMAIN ls :
                 /\ ls[l].instructorId = instructorId
                 /\ includeUnpublished \/ ls[l].published})

(* mutant: the flag alone decides for any caller who is present *)
canSeeUnpublished_AnyCaller(instructorId, includeUnpublished, userSession) ==
  includeUnpublished /\ userSession # {}

(* only instructor themselves or admin can see unpublished *)
canSeeUnpublished(instructorId, includeUnpublished, userSession) ==
  /\ includeUnpublished
  /\ \E s \in userSession : s.uid = instructorId \/ s.role = "ADMIN"

getLessonsByInstructor(instructorId, includeUnpublished, userSession) ==
  LET rawLessons ==
        findByInstructorId(lessons, instructorId,
          canSeeUnpublished(instructorId, includeUnpublished, userSession))
  IN  /\ last' = Result("getLessonsByInstructor", userSession, 0,
                        [instructorId |-> instructorId,
                         includeUnpublished |-> includeUnpublished],
                        NoError,
                        {[i \in 1..Len(rawLessons) |->
                            transformToLessonWithStats(rawLessons[i],
                              lessons[rawLessons[i]],
                              getLessonStats(purchases, rawLessons[i]))]})
      /\ UNCHANGED <<lessons, purchases, reviews, nextId, calls, probe>>

InstructorIds == {"i1", "i2"}

GetLessonsByInstructor ==
  \E i \in InstructorIds, b \in BOOLEAN, s \in OptSessions :
    getLessonsByInstructor(i, b, s)

NextInstructor ==
  \/ CreateLesson
  \/ UpdateLesson
  \/ GetLessonsByInstructor

SpecInstructor == Init /\ [][NextInstructor]_vars

(* every public operation of LessonService, in any order *)
NextPolicy ==
  \/ CreateLesson
  \/ UpdateLesson
  \/ GetLessonById
  \/ SearchLessons
  \/ GetLessonsByInstructor
  \/ DeleteLesson
  \/ RecordPurchase

SpecPolicy == Init /\ [][NextPolicy]_vars

(* the public operations over a store that also holds reviews; the reads
   are made by the anonymous caller and by the student *)
FrameCallers == {{}, {UserSession("s1")}}

RecordCompletedPurchase == \E l \in LessonIds : recordPurchase("s1", l, "COMPLETED")
RecordStudentReview == \E l \in LessonIds : recordReview("s1", l)
FrameGetLessonById == \E l \in LessonIds, s \in FrameCallers : getLessonById(l, s)
FrameSearchLessons == \E s \in FrameCallers : searchLessons([published |-> FALSE], s)
FrameGetLessonsByInstructor ==
  \E s \in FrameCallers : getLessonsByInstructor("i1", TRUE, s)

NextFrame ==
  \/ CreateLesson
  \/ UpdateLesson
  \/ DeleteLesson
  \/ RecordCompletedPurchase
  \/ RecordStudentReview
  \/ FrameGetLessonById
  \/ FrameSearchLessons
  \/ FrameGetLessonsByInstructor

SpecFrame == Init /\ [][NextFrame]_vars

---------------------------------------------------------------------------
(* Errors as thrown objects and the application's error handler *)

(* AppError of shared/middleware/error-handler: (statusCode, message,
   isOperational = true) *)
AppError(statusCode, message) ==
  [instanceOfAppError |-> TRUE, statusCode |-> statusCode, message |-> message,
   isOperational |-> TRUE]

(* AppError of the package @teach-niche/utils, constructed with (statusCode,
   message, code).  Whether the handler's `instanceof AppError` recognises
   it depends on the package: it does when the package's class extends the
   handler's class, and does not when it is a class of its own. *)
UtilsAppError(extendsAppError, statusCode, message, code) ==
  [instanceOfAppError |-> extendsAppError, statusCode |-> statusCode,
   message |-> message, code |-> code]

(* a plain Error, as the database client throws *)
PlainError(message) == [instanceOfAppError |-> FALSE, message |-> message]

(* status and code each lesson error class hands to its base class *)
LessonErrorStatus ==
  [NotFound |-> 404, NotPublished |-> 403, PermissionDenied |-> 403,
   ValidationError |-> 400, TitleConflict |-> 409, HasPurchases |-> 409,
   InvalidPrice |-> 400]

LessonErrorCode ==
  [NotFound |-> "LESSON_NOT_FOUND", NotPublished |-> "LESSON_NOT_PUBLISHED",
   PermissionDenied |-> "LESSON_PERMISSION_DENIED",
   ValidationError |-> "LESSON_VALIDATION_ERROR",
   TitleConflict |-> "LESSON_TITLE_CONFLICT",
   HasPurchases |-> "LESSON_HAS_PURCHASES",
   InvalidPrice |-> "INVALID_LESSON_PRICE"]

LessonErrorKinds == DOMAIN LessonErrorStatus

(* the object a service error is when it is thrown *)
Thrown(error, extendsAppError) ==
  IF error.kind \in LessonErrorKinds
    THEN UtilsAppError(extendsAppError, LessonErrorStatus[error.kind],
                       <<error.kind, error.field>>, LessonErrorCode[error.kind])
    ELSE PlainError(<<error.kind, error.field>>)

NodeEnvs == {"development", "production", "test"}

(* errorHandler *)
errorHandler(err, nodeEnv) ==
  LET stack == IF nodeEnv = "development" THEN {"stack"} ELSE {}
  IN  IF err.instanceOfAppError
        THEN [status |-> err.statusCode,
              body |-> [k \in {"error"} \cup stack |->
                          IF k = "error" THEN err.message ELSE "stack"]]
        ELSE [status |-> 500,
              body |-> [k \in {"error"} \cup stack |->
                          IF k = "error"
                            THEN IF nodeEnv = "production"
                                   THEN "Internal server error"
                                   ELSE err.message
                            ELSE "stack"]]

(* the errors the lesson service and the middleware in front of it throw *)
ServiceErrors ==
  { LessonNotFoundError, LessonNotPublishedError, LessonPermissionDeniedError,
    LessonValidationError("title"), LessonValidationError("description"),
    [kind |-> "TitleConflict", field |-> ""],
    LessonHasPurchasesError, InvalidLessonPriceError, DatabaseError }

MiddlewareErrors ==
  { AppError(401, "No authentication token provided"),
    AppError(401, "Invalid authentication token"),
    AppError(401, "Authentication required"),
    AppError(403, "Insufficient permissions") }

(* the application: the build of @teach-niche/utils in use and NODE_ENV *)
Apps ==
  {[pc |-> "app", utilsExtendsAppError |-> b, nodeEnv |-> n] :
     b \in BOOLEAN, n \in NodeEnvs}

InitErrors ==
  /\ lessons = EmptyObject
  /\ purchases = {}
  /\ reviews = {}
  /\ nextId = 1
  /\ last = Result("none", {}, 0, EmptyObject, NoError, {})
  /\ calls = [c \in CallIds |-> Idle]
  /\ probe \in {[pc |-> "thrown", error |-> e,
                  err |-> Thrown(e, a.utilsExtendsAppError), app |-> a] :
                   e \in ServiceErrors, a \in Apps}
               \cup {[pc |-> "thrown", error |-> NoError, err |-> m, app |-> a] :
                       m \in MiddlewareErrors, a \in Apps}

(* next(error) reaching app.use(errorHandler) *)
HandleError ==
  /\ probe.pc = "thrown"
  /\ probe' = [pc |-> "responded", error |-> probe.error, err |-> probe.err,
               app |-> probe.app,
               response |-> errorHandler(probe.err, probe.app.nodeEnv)]
  /\ UNCHANGED <<lessons, purchases, reviews, nextId, last, calls>>

NextErrors == HandleError

SpecErrors == InitErrors /\ [][NextErrors]_vars

---------------------------------------------------------------------------
(* POST /api/lessons: requireAuth, requireRole(['INSTRUCTOR']),
   validateCreateLessonRequest, then the route handler; an error handed to
   next() or thrown by a middleware is answered by errorHandler *)

MaxCategoryLen == 50

(* the bearer token of the request: absent, one that verifyIdToken rejects,
   or the token of a user *)
Credentials == {{}, {"bad"}} \cup {{u} : u \in Users}

(* admin.auth().verifyIdToken: the decoded token, or nothing when it throws *)
verifyIdToken(token) == IF token \in Users THEN {UserSession(token)} ELSE {}

(* requireAuth: the error handed to next(), or none *)
requireAuth(credential) ==
  IF credential = {} THEN {AppError(401, "No authentication token provided")}
  ELSE IF \A t \in credential : verifyIdToken(t) = {}
    THEN {AppError(401, "Invalid authentication token")}
  ELSE {}

(* req.user after requireAuth *)
RequestUser(credential) == UNION {verifyIdToken(t) : t \in credential}

(* requireRole(roles) *)
requireRole(roles, user) ==
  IF user = {} THEN {AppError(401, "Authentication required")}
  ELSE IF \E u \in user : u.role \notin roles
    THEN {AppError(403, "Insufficient permissions")}
  ELSE {}

(* createLessonSchema: does the body fail to parse *)
CreateLessonSchemaFails(body) ==
  \/ ~Has(body, "title")
  \/ Len(body.title) < 1
  \/ Len(body.title) > MaxTitleLen
  \/ Has(body, "description") /\ Len(body.description) > MaxDescriptionLen
  \/ ~Has(body, "price")
  \/ body.price < MinPrice
  \/ body.price > MaxPrice
  \/ Has(body, "category") /\ Len(body.category) > MaxCategoryLen

(* createLessonSchema: the parsed body; unknown keys are stripped, strings
   are trimmed, and an optional string that trims to nothing is dropped *)
CreateLessonSchemaParse(body) ==
  LET kept == {"title", "price"}
              \cup {k \in {"description", "category"} :
                      Has(body, k) /\ Len(Trim(body[k])) > 0}
  IN  [k \in kept |-> IF k = "price" THEN body[k] ELSE Trim(body[k])]

(* validateCreateLessonRequest: the error thrown, or none *)
validateCreateLessonRequest(body, extendsAppError) ==
  IF CreateLessonSchemaFails(body)
    THEN {UtilsAppError(extendsAppError, 400, "Validation error",
                        "LESSON_VALIDATION_ERROR")}
    ELSE {}

(* the middleware of router.post('/') in the order it is mounted: the first
   error, or none *)
PostLessonsChecks(credential, body, extendsAppError) ==
  LET user == RequestUser(credential)
  IN  IF requireAuth(credential) # {} THEN requireAuth(credential)
      ELSE IF requireRole({"INSTRUCTOR"}, user) # {}
        THEN requireRole({"INSTRUCTOR"}, user)
      ELSE validateCreateLessonRequest(body, extendsAppError)

PostLessons(credential, body) ==
  LET app == probe
      rejected == PostLessonsChecks(credential, body, app.utilsExtendsAppError)
      user == CHOOSE u \in RequestUser(credential) : TRUE
      lessonInput == LessonData(CreateLessonSchemaParse(body), user)
      error == CreateLessonResult(lessonInput, user)
      row == RepoCreateLesson(LessonData(lessonInput, user))
      request == [credential |-> credential, body |-> body]
  IN  /\ nextId <= MaxLessons
      /\ IF rejected # {}
           THEN /\ last' = Result("POST /api/lessons", RequestUser(credential), 0,
                                  request, NoError,
                                  {errorHandler(e, app.nodeEnv) : e \in rejected})
                /\ UNCHANGED <<lessons, nextId>>
         ELSE IF error # NoError
           THEN /\ last' = Result("POST /api/lessons", {user}, 0, request, error,
                                  {errorHandler(Thrown(error, app.utilsExtendsAppError),
                                                app.nodeEnv)})
                /\ UNCHANGED <<lessons, nextId>>
         ELSE /\ lessons' = [l \in DOMAIN lessons \cup {nextId} |->
                               IF l = nextId THEN row ELSE lessons[l]]
              /\ nextId' = nextId + 1
              /\ last' = Result("POST /api/lessons", {user}, nextId, request,
                                NoError,
                                {[status |-> 201,
                                  body |-> [data |-> [id |-> nextId,
                                                      title |-> row.title,
                                                      price |-> row.price,
                                                      published |-> row.published]]]})
      /\ UNCHANGED <<purchases, reviews, calls, probe>>

PostBodies ==
  { [title |-> <<"A", "b">>, description |-> <<"d">>, price |-> 2999,
     category |-> <<"c">>],
    [title |-> <<"A">>, price |-> 100, published |-> TRUE],
    [title |-> <<>>, price |-> 2999],
    [title |-> <<" ">>, price |-> 2999],
    [title |-> <<"A">>, price |-> 99],
    [price |-> 2999] }

PostLessonsRequest == \E c \in Credentials, b \in PostBodies : PostLessons(c, b)

InitHttp ==
  /\ lessons = EmptyObject
  /\ purchases = {}
  /\ reviews = {}
  /\ nextId = 1
  /\ last = Result("none", {}, 0, EmptyObject, NoError, {})
  /\ calls = [c \in CallIds |-> Idle]
  /\ probe \in Apps

NextHttp == PostLessonsRequest

SpecHttp == InitHttp /\ [][NextHttp]_vars

---------------------------------------------------------------------------
(* PUT /api/lessons/:id: requireAuth, validateUpdateLessonRequest, then the
   route handler *)

UpdateSchemaKeys ==
  {"title", "description", "price", "category", "published", "thumbnailUrl"}

(* updateLessonSchema: does the body fail to parse; keys the schema does not
   name are stripped before the refinement counts the keys *)
UpdateLessonSchemaFails(body) ==
  \/ Has(body, "title") /\ (Len(body.title) < 1 \/ Len(body.title) > MaxTitleLen)
  \/ Has(body, "description") /\ Len(body.description) > MaxDescriptionLen
  \/ Has(body, "price") /\ (body.price < MinPrice \/ body.price > MaxPrice)
  \/ Has(body, "category") /\ Len(body.category) > MaxCategoryLen
  \/ DOMAIN body \cap UpdateSchemaKeys = {}

(* updateLessonSchema: the parsed body; the title is trimmed after its
   length was tested *)
UpdateLessonSchemaParse(body) ==
  [k \in DOMAIN body \cap UpdateSchemaKeys |->
     IF k = "title" THEN Trim(body[k]) ELSE body[k]]

(* validateUpdateLessonRequest: the error thrown, or none *)
validateUpdateLessonRequest(body, extendsAppError) ==
  IF UpdateLessonSchemaFails(body)
    THEN {UtilsAppError(extendsAppError, 400, "Validation error",
                        "LESSON_VALIDATION_ERROR")}
    ELSE {}

PutLesson(credential, lessonId, body) ==
  LET app == probe
      rejected == IF requireAuth(credential) # {} THEN requireAuth(credential)
                  ELSE validateUpdateLessonRequest(body, app.utilsExtendsAppError)
      user == CHOOSE u \in RequestUser(credential) : TRUE
      input == UpdateLessonSchemaParse(body)
      error == UpdateLessonResult(lessons, lessonId, input, user)
      request == [credential |-> credential, body |-> body]
  IN  /\ IF rejected # {}
           THEN /\ last' = Result("PUT /api/lessons", RequestUser(credential),
                                  lessonId, request, NoError,
                                  {errorHandler(e, app.nodeEnv) : e \in rejected})
                /\ UNCHANGED lessons
         ELSE IF error # NoError
           THEN /\ last' = Result("PUT /api/lessons", {user}, lessonId, request,
                                  error,
                                  {errorHandler(Thrown(error, app.utilsExtendsAppError),
                                                app.nodeEnv)})
                /\ UNCHANGED lessons
         ELSE /\ lessons' = [lessons EXCEPT ![lessonId] = RepoUpdateLesson(@, input)]
              /\ last' = Result("PUT /api/lessons", {user}, lessonId, request,
                                NoError,
                                {[status |-> 200,
                                  body |-> [data |->
                                    [id |-> lessonId,
                                     title |-> RepoUpdateLesson(lessons[lessonId], input).title,
                                     price |-> RepoUpdateLesson(lessons[lessonId], input).price,
                                     published |->
                                       RepoUpdateLesson(lessons[lessonId], input).published]]]})
      /\ UNCHANGED <<purchases, reviews, nextId, calls, probe>>

PutBodies ==
  { [title |-> <<"n">>, instructorId |-> "i2"],
    [instructorId |-> "i2"],
    [price |-> 2999, instructorId |-> "a1", published |-> TRUE],
    [title |-> <<" ">>],
    [price |-> MaxPrice + 1] }

PutCredentials == {{}, {"i1"}, {"i2"}, {"a1"}}

PutLessonRequest ==
  \E c \in PutCredentials, l \in LessonIds, b \in PutBodies : PutLesson(c, l, b)

InitOwner ==
  /\ lessons = EmptyObject
  /\ purchases = {}
  /\ reviews = {}
  /\ nextId = 1
  /\ last = Result("none", {}, 0, EmptyObject, NoError, {})
  /\ calls = [c \in CallIds |-> Idle]
  /\ probe \in {a \in Apps : a.nodeEnv = "production"}

NextOwner ==
  \/ CreateLesson
  \/ UpdateLesson
  \/ PutLessonRequest

SpecOwner == InitOwner /\ [][NextOwner]_vars

---------------------------------------------------------------------------
(* GET /api/lessons: validateLessonSearchRequest, then the route handler,
   over a store that holds up to MaxStoredLessons lessons *)

DefaultPage == 1
DefaultPageSize == 20
MaxPageSize == 100

(* lessonSearchSchema: sortBy and sortOrder *)
SortByValues == {"created", "price", "rating", "purchases"}
SortDirections == {"asc", "desc"}

(* lessonSearchSchema, page and pageSize: the defaults when absent *)
QueryPage(query) == IF Has(query, "page") THEN query.page ELSE DefaultPage
QueryPageSize(query) ==
  IF Has(query, "pageSize") THEN query.pageSize ELSE DefaultPageSize

(* validateLessonSearchRequest: the error thrown, or none *)
validateLessonSearchRequest(query, extendsAppError) ==
  IF \/ QueryPage(query) < 1
     \/ QueryPageSize(query) < 1
     \/ QueryPageSize(query) > MaxPageSize
     \/ Has(query, "sortBy") /\ query.sortBy \notin SortByValues
     \/ Has(query, "sortOrder") /\ query.sortOrder \notin SortDirections
    THEN {UtilsAppError(extendsAppError, 400, "Validation error",
                        "LESSON_VALIDATION_ERROR")}
    ELSE {}

(* filters of the route: the query's published when it was given, limit:
   pageSize, offset: (page - 1) * pageSize *)
RouteFilters(query) ==
  [k \in ({"published"} \cap DOMAIN query) \cup {"limit", "offset"} |->
     CASE k = "published" -> query.published
       [] k = "limit" -> QueryPageSize(query)
       [] k = "offset" -> (QueryPage(query) - 1) * QueryPageSize(query)]

GetLessons(query, user) ==
  LET app == probe
      rejected == validateLessonSearchRequest(query, app.utilsExtendsAppError)
      result == SearchLessonsResult(lessons, purchases, RouteFilters(query), user)
      page == QueryPage(query)
      pageSize == QueryPageSize(query)
  IN  /\ last' = Result("GET /api/lessons", user, 0, query, NoError,
                        IF rejected # {}
                          THEN {errorHandler(e, app.nodeEnv) : e \in rejected}
                          ELSE {[status |-> 200,
                                 body |-> [data |->
                                   [items |-> result.lessons,
                                    total |-> result.total,
                                    page |-> page,
                                    pageSize |-> pageSize,
                                    hasMore |-> (page * pageSize) < result.total]]]})
      /\ UNCHANGED <<lessons, purchases, reviews, nextId, calls, probe>>

SearchQueries ==
  {[k \in {} |-> 0]}
  \cup {[page |-> p, pageSize |-> s] : p \in {0, 1, 2, 3}, s \in {1, 2, 101}}
  \cup {[page |-> p, pageSize |-> 1, published |-> b] : p \in {1, 2}, b \in BOOLEAN}

(* req.user as the middleware in front of the router left it *)
SearchUsers == {{}, {UserSession("i1")}, {UserSession("a1")}}

GetLessonsRequest == \E q \in SearchQueries, u \in SearchUsers : GetLessons(q, u)

(* the row createLesson stores for instructor i1, published or still a draft *)
StoredRow(published) ==
  [RepoCreateLesson(LessonData(ValidInputA, UserSession("i1")))
     EXCEPT !.published = published]

InitPage ==
  /\ \E n \in 0..MaxStoredLessons :
       /\ lessons \in [1..n -> {StoredRow(TRUE), StoredRow(FALSE)}]
       /\ nextId = n + 1
  /\ purchases = {}
  /\ reviews = {}
  /\ last = Result("none", {}, 0, EmptyObject, NoError, {})
  /\ calls = [c \in CallIds |-> Idle]
  /\ probe \in Apps

NextPage == GetLessonsRequest

SpecPage == InitPage /\ [][NextPage]_vars

---------------------------------------------------------------------------
(* Sorted search: LessonRepository.searchLessons(filters, sort) and the
   operations in front of it, over a store whose lessons differ in title
   and price *)

(* LessonSortOptions.field *)
SortFields == {"createdAt", "price", "title", "purchaseCount", "averageRating"}

(* mutant: title is not a column the repository sorts by *)
buildOrderBy_TitleFallsBack(sort) ==
  CASE sort.field = "price" -> [column |-> "price", direction |-> sort.direction]
    [] OTHER -> [column |-> "createdAt", direction |-> sort.direction]

(* buildOrderBy: the column and the direction handed to findMany *)
buildOrderBy(sort) ==
  CASE sort.field = "price" -> [column |-> "price", direction |-> sort.direction]
    [] sort.field = "title" -> [column |-> "title", direction |-> sort.direction]
    [] OTHER -> [column |-> "createdAt", direction |-> sort.direction]

(* the database's order of the characters that titles are made of *)
CharRank == [a |-> 1, b |-> 2, c |-> 3]

(* text comparison of the database: character by character, a proper
   prefix first *)
RECURSIVE TextLessEq(_, _)
TextLessEq(s, t) ==
  IF s = <<>> THEN TRUE
  ELSE IF t = <<>> THEN FALSE
  ELSE IF CharRank[Head(s)] # CharRank[Head(t)]
    THEN CharRank[Head(s)] < CharRank[Head(t)]
  ELSE TextLessEq(Tail(s), Tail(t))

(* ORDER BY column ASC: may row a come before row b *)
ColumnLessEq(ls, a, b, column) ==
  CASE column = "price" -> ls[a].price <= ls[b].price
    [] column = "title" -> TextLessEq(ls[a].title, ls[b].title)
    [] column = "createdAt" -> a <= b

(* ORDER BY: the orders the database may return the rows S in; rows equal
   in the column come in any order *)
OrderedBy(ls, S, orderBy) ==
  {q \in [1..Cardinality(S) -> S] :
     /\ \A i, j \in 1..Cardinality(S) : i # j => q[i] # q[j]
     /\ \A i, j \in 1..Cardinality(S) :
          i < j => IF orderBy.direction = "asc"
                     THEN ColumnLessEq(ls, q[i], q[j], orderBy.column)
                     ELSE ColumnLessEq(ls, q[j], q[i], orderBy.column)}

(* findMany({ where, orderBy, take, skip }): the possible results *)
RepoSearchLessonsSorted(ls, filters, sort) ==
  LET take == IF TruthyNum(filters, "limit") THEN filters.limit ELSE DefaultLimit
      skip == IF TruthyNum(filters, "offset") THEN filters.offset ELSE 0
  IN  {SubSeq(all, skip + 1,
              IF skip + take < Len(all) THEN skip + take ELSE Len(all)) :
         all \in OrderedBy(ls, WhereIds(ls, filters), buildOrderBy(sort))}

(* LessonService.searchLessons(filters, sort, userSession): the possible
   return values *)
SearchLessonsSortedResults(ls, ps, filters, sort, userSession) ==
  LET searchFilters == SearchFilters(filters, userSession)
      total == countLessons(ls, searchFilters)
  IN  {[searchFilters |-> searchFilters,
        lessons |-> [i \in 1..Len(rawLessons) |->
                       transformToLessonSummary(ls, ps, rawLessons[i])],
        total |-> total] :
         rawLessons \in RepoSearchLessonsSorted(ls, searchFilters, sort)}

(* the answer is recorded in `last`; the request is the one held in `probe` *)
searchLessonsSorted(filters, sort, userSession) ==
  /\ \E result \in SearchLessonsSortedResults(lessons, purchases, filters, sort,
                                               userSession) :
       last' = Result("searchLessons", userSession, 0,
                      [filters |-> filters, sort |-> sort], NoError, {result})
  /\ probe' = [probe EXCEPT !.pc = "answered"]
  /\ UNCHANGED <<lessons, purchases, reviews, nextId, calls>>

(* sortOptions of the route: sortBy = 'created' by default, and 'created'
   names the field createdAt; sortOrder = 'desc' by default *)
RouteSortOptions(query) ==
  LET sortBy == IF Has(query, "sortBy") THEN query.sortBy ELSE "created"
      sortOrder == IF Has(query, "sortOrder") THEN query.sortOrder ELSE "desc"
  IN  [field |-> IF sortBy = "created" THEN "createdAt" ELSE sortBy,
       direction |-> sortOrder]

(* router.get('/') for a query that carries sortBy and sortOrder *)
GetLessonsSorted(query, user, app) ==
  LET rejected == validateLessonSearchRequest(query, app.utilsExtendsAppError)
      page == QueryPage(query)
      pageSize == QueryPageSize(query)
  IN  /\ \E result \in SearchLessonsSortedResults(lessons, purchases,
                          RouteFilters(query), RouteSortOptions(query), user) :
           last' = Result("GET /api/lessons", user, 0, query, NoError,
                          IF rejected # {}
                            THEN {errorHandler(e, app.nodeEnv) : e \in rejected}
                            ELSE {[status |-> 200,
                                   body |-> [data |->
                                     [items |-> result.lessons,
                                      total |-> result.total,
                                      page |-> page,
                                      pageSize |-> pageSize,
                                      hasMore |-> (page * pageSize) < result.total]]]})
      /\ probe' = [probe EXCEPT !.pc = "answered"]
      /\ UNCHANGED <<lessons, purchases, reviews, nextId, calls>>

SortFilters == {EmptyObject, [limit |-> 2]}

SortOptions == {[field |-> f, direction |-> d] : f \in SortFields, d \in SortDirections}

SortQueries ==
  {[sortBy |-> b] : b \in SortByValues \cup {"title"}}
  \cup {[sortBy |-> b, sortOrder |-> o] : b \in SortByValues, o \in SortDirections}

(* the request to answer: a call of the service, or a GET of an application *)
SortRequests ==
  {[pc |-> "searchLessons", filters |-> f, sort |-> o, session |-> s] :
     f \in SortFilters, o \in SortOptions, s \in {{}, {UserSession("i1")}}}
  \cup {[pc |-> "GET /api/lessons", query |-> q, app |-> a] :
          q \in SortQueries, a \in {x \in Apps : x.nodeEnv = "production"}}

SearchLessonsSorted ==
  /\ probe.pc = "searchLessons"
  /\ searchLessonsSorted(probe.filters, probe.sort, probe.session)

(* GET /api/lessons is mounted without requireAuth: req.user is not set *)
GetLessonsSortedRequest ==
  /\ probe.pc = "GET /api/lessons"
  /\ GetLessonsSorted(probe.query, {}, probe.app)

(* published rows of instructor i1 that differ in title and price; two of
   them have the same price *)
SortedRows ==
  { [StoredRow(TRUE) EXCEPT !.title = <<"b">>, !.price = 100],
    [StoredRow(TRUE) EXCEPT !.title = <<"a">>, !.price = 2999],
    [StoredRow(TRUE) EXCEPT !.title = <<"b", "a">>, !.price = 100] }

InitSort ==
  /\ \E n \in 0..MaxStoredLessons :
       /\ lessons \in [1..n -> SortedRows]
       /\ nextId = n + 1
  /\ purchases = {}
  /\ reviews = {}
  /\ last = Result("none", {}, 0, EmptyObject, NoError, {})
  /\ calls = [c \in CallIds |-> Idle]
  /\ probe \in SortRequests

NextSort ==
  \/ SearchLessonsSorted
  \/ GetLessonsSortedRequest

SpecSort == InitSort /\ [][NextSort]_vars

---------------------------------------------------------------------------
(* GET /api/videos/access/:lessonId and POST /api/payments/checkout *)

(* VideoService.generateSignedUrl: const hasPurchased = true *)
hasPurchased(ps, lessonId, userId) == TRUE

(* VideoService.generateSignedUrl: the signed URL, or the error thrown *)
generateSignedUrl(ps, lessonId, userId) ==
  IF ~hasPurchased(ps, lessonId, userId)
    THEN [error |-> {AppError(403, "Access denied - purchase required")},
          url |-> {}]
    ELSE [error |-> {}, url |-> {<<"lessons", lessonId, "video.mp4">>}]

VideoAccess(credential, lessonId) ==
  LET app == probe
      rejected == requireAuth(credential)
      user == CHOOSE u \in RequestUser(credential) : TRUE
      signed == generateSignedUrl(purchases, lessonId, user.uid)
  IN  /\ last' = Result("GET /api/videos/access", RequestUser(credential), lessonId,
                        [credential |-> credential], NoError,
                        IF rejected # {}
                          THEN {errorHandler(e, app.nodeEnv) : e \in rejected}
                        ELSE IF signed.error # {}
                          THEN {errorHandler(e, app.nodeEnv) : e \in signed.error}
                        ELSE {[status |-> 200, body |-> [url |-> u]] : u \in signed.url})
      /\ UNCHANGED <<lessons, purchases, reviews, nextId, calls, probe>>

PlatformFeePercent == 15
CheckoutUnitAmount == 1999

(* PaymentService.createCheckoutSession: the session asked of Stripe *)
createCheckoutSession(ls, lessonId, userId) ==
  [unit_amount |-> CheckoutUnitAmount,
   quantity |-> 1,
   application_fee_amount |-> (CheckoutUnitAmount * PlatformFeePercent) \div 100,
   metadata |-> [userId |-> userId, lessonId |-> lessonId]]

Checkout(credential, lessonId) ==
  LET app == probe
      rejected == requireAuth(credential)
      user == CHOOSE u \in RequestUser(credential) : TRUE
      session == createCheckoutSession(lessons, lessonId, user.uid)
  (* the answer is recorded together with the session created at Stripe *)
  IN  /\ last' = Result("POST /api/payments/checkout", RequestUser(credential),
                        lessonId, [credential |-> credential], NoError,
                        IF rejected # {}
                          THEN {errorHandler(e, app.nodeEnv) : e \in rejected}
                          ELSE {[status |-> 200,
                                 body |-> [sessionUrl |-> <<"checkout", lessonId>>],
                                 session |-> session]})
      /\ UNCHANGED <<lessons, purchases, reviews, nextId, calls, probe>>

(* the owner setting another price within the range *)
RepriceLesson ==
  \E l \in LessonIds, p \in {MinPrice, 2999, MaxPrice} :
    updateLesson(l, [price |-> p, published |-> TRUE], UserSession("i2"))

VideoAccessRequest == \E c \in Credentials, l \in LessonIds : VideoAccess(c, l)
CheckoutRequest == \E c \in Credentials, l \in LessonIds : Checkout(c, l)

NextAccess ==
  \/ CreateLessonByOwner
  \/ RepriceLesson
  \/ RecordStudentPurchase
  \/ VideoAccessRequest
  \/ CheckoutRequest

SpecAccess == InitHttp /\ [][NextAccess]_vars

---------------------------------------------------------------------------
(* POST /api/payments/webhook and PaymentService.handleWebhook *)

(* the stripe-signature header: absent, made without the webhook secret, or
   Stripe's signature of the payload *)
Signatures == {{}, {"forged"}, {"signed"}}

EventTypes ==
  {"checkout.session.completed", "payment_intent.succeeded", "charge.refunded"}

(* session.metadata: null, or the metadata createCheckoutSession sets *)
Metadatas == {{}, {[userId |-> "s1", lessonId |-> 1]}}

Events == {[type |-> t, metadata |-> m] : t \in EventTypes, m \in Metadatas}

(* the payload as handleWebhook receives it: the bytes Stripe sent (raw), or
   the object express.json() made of them *)
Payloads == {[raw |-> r, event |-> e] : r \in BOOLEAN, e \in Events}

(* stripe.webhooks.constructEvent(body, signature, secret): the event, or
   nothing when it throws; it verifies the signature over the bytes of the
   payload and throws for a payload that is not a string or a Buffer *)
constructEvent(body, signature) ==
  IF body.raw /\ signature = {"signed"} THEN {body.event} ELSE {}

(* handleSuccessfulPayment: destructures session.metadata! and logs
   payment.successful; a TypeError when the metadata are null *)
handleSuccessfulPayment(session) ==
  IF session.metadata = {}
    THEN [error |-> {PlainError("Cannot destructure property of null")},
          logged |-> {}]
    ELSE [error |-> {}, logged |-> {[message |-> "payment.successful", data |-> m] :
                                      m \in session.metadata}]

(* mutant: an event that did not verify is dispatched as it came *)
handleWebhook_DispatchesUnverified(body, signature) ==
  LET event == body.event
      payment == handleSuccessfulPayment(event)
  IN  IF event.type = "checkout.session.completed"
        THEN [error |-> payment.error, handled |-> {event}, logged |-> payment.logged]
        ELSE [error |-> {}, handled |-> {},
              logged |-> {[message |-> "payment.webhook.unhandled",
                           data |-> event.type]}]

(* PaymentService.handleWebhook: the error thrown (or none), the sessions
   handed to handleSuccessfulPayment, and what was logged *)
handleWebhook(body, signature) ==
  LET verified == constructEvent(body, signature)
      event == CHOOSE e \in verified : TRUE
      payment == handleSuccessfulPayment(event)
  IN  IF verified = {}
        THEN [error |-> {AppError(400, "Invalid webhook signature")},
              handled |-> {}, logged |-> {}]
      ELSE IF event.type = "checkout.session.completed"
        THEN [error |-> payment.error, handled |-> {event}, logged |-> payment.logged]
      ELSE [error |-> {}, handled |-> {},
            logged |-> {[message |-> "payment.webhook.unhandled",
                         data |-> event.type]}]

(* the service called with the payload and the header *)
HandleWebhook(body, signature) ==
  LET done == handleWebhook(body, signature)
  IN  /\ last' = Result("handleWebhook", {}, 0,
                        [body |-> body, signature |-> signature], NoError,
                        {[thrown |-> done.error, handled |-> done.handled,
                          logged |-> done.logged]})
      /\ UNCHANGED <<lessons, purchases, reviews, nextId, calls, probe>>

(* express.json() mounted in front of every router: req.body is the parsed
   object *)
ExpressJson(payload) == [payload EXCEPT !.raw = FALSE]

(* paymentsRouter.post('/webhook') behind app.use(express.json()) *)
PostWebhook(payload, signature) ==
  LET app == probe
      done == handleWebhook(ExpressJson(payload), signature)
  IN  /\ last' = Result("POST /api/payments/webhook", {}, 0,
                        [body |-> payload, signature |-> signature], NoError,
                        {[status |-> IF done.error # {}
                                       THEN errorHandler(e, app.nodeEnv).status
                                       ELSE 200,
                          body |-> IF done.error # {}
                                     THEN errorHandler(e, app.nodeEnv).body
                                     ELSE [received |-> TRUE],
                          handled |-> done.handled,
                          logged |-> done.logged] : e \in done.error \cup
                             (IF done.error = {} THEN {NoError} ELSE {})})
      /\ UNCHANGED <<lessons, purchases, reviews, nextId, calls, probe>>

HandleWebhookCall == \E b \in Payloads, g \in Signatures : HandleWebhook(b, g)

PostWebhookRequest ==
  \E b \in {x \in Payloads : x.raw}, g \in Signatures : PostWebhook(b, g)

NextWebhook ==
  \/ HandleWebhookCall
  \/ PostWebhookRequest

SpecWebhook == InitHttp /\ [][NextWebhook]_vars

---------------------------------------------------------------------------
(* scripts/mcp-test-server.js: the tools run-tests, test-specific and
   test-coverage.  handleRequest is not awaited by the reader of stdin, so
   tool calls run interleaved at their awaits; `calls` holds each one's
   position and `probe` whether the test services are up. *)

McpTools == {"run-tests", "test-specific", "test-coverage"}

(* args of the tool call: args || {} *)
McpArgs == {EmptyObject, [file |-> "a.test.ts"], [threshold |-> 80]}

DefaultThreshold == 90

(* how startTestServices ends: docker-compose up, waitForDatabase,
   waitForRedis *)
StartOutcomes ==
  {"ok", "Command failed: docker-compose up", "Database failed to start",
   "Redis failed to start"}

(* how the test command ends: its stdout with the coverage it reports, or
   the error of execAsync *)
ExecOutcomes ==
  { [ok |-> TRUE, coverage |-> 0], [ok |-> TRUE, coverage |-> 85],
    [ok |-> TRUE, coverage |-> 95], [ok |-> FALSE, coverage |-> 0] }

DownFailed == "Command failed: docker-compose down"

(* mutant: the failure of docker-compose down is thrown to the caller *)
stopTestServices_Throws(downOk) == IF downOk THEN {} ELSE {DownFailed}

(* stopTestServices: the error it throws; the catch inside swallows it *)
stopTestServices(downOk) == {}

(* the text the tool returns *)
ToolResult(tool, args, stdout) ==
  IF tool = "test-coverage"
    THEN [text |-> "Coverage Report", stdout |-> stdout,
          meets |-> stdout.coverage >=
                      (IF Has(args, "threshold") THEN args.threshold
                                                 ELSE DefaultThreshold)]
    ELSE [text |-> "Test Results", stdout |-> stdout]

McpCall(tool, args) ==
  [pc |-> "startTestServices", tool |-> tool, args |-> args, trace |-> <<>>,
   stdout |-> {}, downFailed |-> FALSE, result |-> {}, error |-> {}]

(* tools/call: the tool begins; test-specific throws before its try when
   no file is given *)
InvokeTool(c, tool, args) ==
  /\ calls[c].pc = "idle"
  /\ calls' = [calls EXCEPT ![c] =
       IF tool = "test-specific" /\ ~Has(args, "file")
         THEN [McpCall(tool, args) EXCEPT !.pc = "returned",
                                          !.error = {"File path is required"}]
         ELSE McpCall(tool, args)]
  /\ UNCHANGED <<lessons, purchases, reviews, nextId, last, probe>>

(* await this.startTestServices() *)
StartTestServices(c) ==
  /\ calls[c].pc = "startTestServices"
  /\ \E o \in StartOutcomes :
       /\ calls' = [calls EXCEPT
            ![c].trace = Append(@, "startTestServices"),
            ![c].pc = IF o = "ok" THEN "execAsync" ELSE "catch",
            ![c].error = IF o = "ok" THEN {} ELSE {o}]
       /\ probe' = [probe EXCEPT
            !.up = IF o = "Command failed: docker-compose up" THEN @ ELSE TRUE]
  /\ UNCHANGED <<lessons, purchases, reviews, nextId, last>>

(* await execAsync(cmd) *)
ExecTests(c) ==
  /\ calls[c].pc = "execAsync"
  /\ \E o \in ExecOutcomes :
       calls' = [calls EXCEPT
         ![c].trace = Append(@, "execAsync"),
         ![c].pc = IF o.ok THEN "stopTestServices" ELSE "catch",
         ![c].stdout = IF o.ok THEN {o} ELSE {},
         ![c].error = IF o.ok THEN {} ELSE {"Command failed: pnpm test"}]
  /\ UNCHANGED <<lessons, purchases, reviews, nextId, last, probe>>

(* await this.stopTestServices() in the try block, then return *)
StopAndReturn(c) ==
  /\ calls[c].pc = "stopTestServices"
  /\ \E downOk \in BOOLEAN :
       LET thrown == stopTestServices(downOk)
           stdout == CHOOSE o \in calls[c].stdout : TRUE
       IN  /\ calls' = [calls EXCEPT
                ![c].trace = Append(@, "stopTestServices"),
                ![c].downFailed = ~downOk,
                ![c].pc = IF thrown = {} THEN "returned" ELSE "catch",
                ![c].result = IF thrown = {}
                                THEN {ToolResult(calls[c].tool, calls[c].args, stdout)}
                                ELSE {},
                ![c].error = thrown]
           /\ probe' = [probe EXCEPT !.up = IF downOk THEN FALSE ELSE @]
  /\ UNCHANGED <<lessons, purchases, reviews, nextId, last>>

(* catch (error) { await this.stopTestServices(); throw error; } *)
StopAndThrow(c) ==
  /\ calls[c].pc = "catch"
  /\ \E downOk \in BOOLEAN :
       LET thrown == stopTestServices(downOk)
       IN  /\ calls' = [calls EXCEPT
                ![c].trace = Append(@, "stopTestServices"),
                ![c].downFailed = ~downOk,
                ![c].pc = "returned",
                ![c].error = IF thrown = {} THEN @ ELSE thrown]
           /\ probe' = [probe EXCEPT !.up = IF downOk THEN FALSE ELSE @]
  /\ UNCHANGED <<lessons, purchases, reviews, nextId, last>>

InitMcp ==
  /\ lessons = EmptyObject
  /\ purchases = {}
  /\ reviews = {}
  /\ nextId = 1
  /\ last = Result("none", {}, 0, EmptyObject, NoError, {})
  /\ calls = [c \in CallIds |-> Idle]
  /\ probe = [pc |-> "services", up |-> FALSE]

McpInvoke == \E c \in CallIds, t \in McpTools, a \in McpArgs : InvokeTool(c, t, a)
McpStart == \E c \in CallIds : StartTestServices(c)
McpExec == \E c \in CallIds : ExecTests(c)
McpStopAndReturn == \E c \in CallIds : StopAndReturn(c)
McpStopAndThrow == \E c \in CallIds : StopAndThrow(c)

NextMcp ==
  \/ McpInvoke
  \/ McpStart
  \/ McpExec
  \/ McpStopAndReturn
  \/ McpStopAndThrow

SpecMcp == InitMcp /\ [][NextMcp]_vars

---------------------------------------------------------------------------
(* The validators applied to inputs drawn from InputsToValidate *)

Titles ==
  { <<>>, <<" ">>, <<" ", "\t">>, <<"a">>, <<" ", "a", " ">>,
    Rep("a", MaxTitleLen), Rep("a", MaxTitleLen + 1), Rep(" ", MaxTitleLen + 1) }

Descriptions ==
  { <<>>, <<"d">>, Rep("d", MaxDescriptionLen), Rep("d", MaxDescriptionLen + 1) }

Prices == {0, MinPrice - 1, MinPrice, 2999, MaxPrice, MaxPrice + 1}

InputsToValidate ==
  {[title |-> t, description |-> d, price |-> p] :
     t \in Titles, d \in Descriptions, p \in Prices}
  \cup {[title |-> t, price |-> p] : t \in Titles, p \in Prices}
  \cup {[description |-> d, price |-> p] : d \in Descriptions, p \in Prices}

UpdatesToValidate ==
  {[price |-> p] : p \in Prices} \cup {[title |-> t] : t \in Titles}

InitValidate ==
  /\ lessons = EmptyObject
  /\ purchases = {}
  /\ reviews = {}
  /\ nextId = 1
  /\ last = Result("none", {}, 0, EmptyObject, NoError, {})
  /\ calls = [c \in CallIds |-> Idle]
  /\ probe \in {[pc |-> "createLesson", input |-> i, error |-> NoError] :
                   i \in InputsToValidate}
               \cup {[pc |-> "updateLesson", input |-> i, error |-> NoError] :
                       i \in UpdatesToValidate}

ApplyValidateLessonInput ==
  /\ probe.pc = "createLesson"
  /\ probe' = [probe EXCEPT !.pc = "validateLessonInput",
                            !.error = validateLessonInput(probe.input)]
  /\ UNCHANGED <<lessons, purchases, nextId, last, calls, reviews>>

ApplyValidateUpdates ==
  /\ probe.pc = "updateLesson"
  /\ probe' = [probe EXCEPT !.pc = "validateUpdates",
                            !.error = ValidateUpdates(probe.input)]
  /\ UNCHANGED <<lessons, purchases, nextId, last, calls, reviews>>

NextValidate == ApplyValidateLessonInput \/ ApplyValidateUpdates

SpecValidate == InitValidate /\ [][NextValidate]_vars

---------------------------------------------------------------------------
(* Properties *)

TheSession(r) == CHOOSE s \in r.session : TRUE

OtherFilterFields ==
  {"query", "category", "minPrice", "maxPrice", "instructorId", "limit", "offset"}

AllWhitespace(str) == \A i \in 1..Len(str) : str[i] \in Whitespace

TitleRejected(input) ==
  \/ ~Has(input, "title")
  \/ AllWhitespace(input.title)
  \/ Len(input.title) > 200

DescriptionRejected(input) ==
  Has(input, "description") /\ Len(input.description) > 2000

PriceInRange(price) == 100 <= price /\ price <= 99999

(* C1: getLessonById of an existing unpublished lesson returns the lesson
   iff the caller is present and is its owner or an ADMIN; every other caller,
   the anonymous one included, gets NotPublished and no lesson data. *)
C1_UnpublishedVisibleToOwnerAndAdminOnly ==
  [][ ( /\ last'.op = "getLessonById"
        /\ last'.lessonId \in DOMAIN lessons
        /\ ~lessons[last'.lessonId].published )
      => LET row == lessons[last'.lessonId]
             allowed == \E s \in last'.session :
                          s.uid = row.instructorId \/ s.role = "ADMIN"
         IN  IF allowed
               THEN /\ last'.error.kind = "ok"
                    /\ \E o \in last'.out : /\ o.lesson.id = last'.lessonId
                                            /\ o.lesson.lesson = row
               ELSE /\ last'.error.kind = "NotPublished"
                    /\ last'.out = {} ]_vars

(* an instructor who is not the owner has been refused an unpublished lesson *)
C1_Witness ==
  /\ last.op = "getLessonById"
  /\ last.lessonId \in DOMAIN lessons
  /\ ~lessons[last.lessonId].published
  /\ \E s \in last.session :
       s.role = "INSTRUCTOR" /\ s.uid # lessons[last.lessonId].instructorId
  /\ last.error.kind = "NotPublished"

(* C2: getLessonById of an existing published lesson succeeds for every
   caller of every role and for the anonymous caller; NotPublished is never
   raised for a published lesson. *)
C2_PublishedVisibleToEveryone ==
  [][ ( /\ last'.op = "getLessonById"
        /\ last'.lessonId \in DOMAIN lessons
        /\ lessons[last'.lessonId].published )
      => /\ last'.error.kind = "ok"
         /\ \E o \in last'.out : /\ o.lesson.id = last'.lessonId
                                 /\ o.lesson.lesson = lessons[last'.lessonId] ]_vars

(* the anonymous caller has been given a published lesson *)
C2_Witness ==
  /\ last.op = "getLessonById"
  /\ last.session = {}
  /\ last.lessonId \in DOMAIN lessons
  /\ lessons[last.lessonId].published
  /\ last.error.kind = "ok"
  /\ last.out # {}

(* C3: deleteLesson answers NotFound for an absent lesson, else
   PermissionDenied for a caller who is neither owner nor ADMIN, else
   HasPurchases when the lesson has purchases, else it succeeds; after a
   success the lesson is gone, getLessonById gives NotFound to every caller,
   and a lesson that is gone never comes back. *)
C3_DeleteDecisionOrder ==
  [][ /\ last'.op = "deleteLesson" =>
           LET l == last'.lessonId
               s == TheSession(last')
               expected ==
                 IF l \notin DOMAIN lessons THEN "NotFound"
                 ELSE IF ~(s.uid = lessons[l].instructorId \/ s.role = "ADMIN")
                   THEN "PermissionDenied"
                 ELSE IF \E p \in purchases : p.lessonId = l THEN "HasPurchases"
                 ELSE "ok"
           IN  /\ last'.error.kind = expected
               /\ expected = "ok" =>
                    /\ l \notin DOMAIN lessons'
                    /\ \A c \in OptSessions :
                         GetLessonByIdResult(lessons', l, c).kind = "NotFound"
               /\ expected # "ok" => lessons' = lessons
      /\ \A l \in LessonIds :
           (l < nextId /\ l \notin DOMAIN lessons) => l \notin DOMAIN lessons' ]_vars

(* a caller without rights has been refused with PermissionDenied although
   the lesson has purchases *)
C3_Witness ==
  /\ last.op = "deleteLesson"
  /\ last.error.kind = "PermissionDenied"
  /\ \E p \in purchases : p.lessonId = last.lessonId

(* C4: whatever createLesson, updateLesson, deleteLesson and purchase
   creation do one at a time, a lesson with a COMPLETED purchase is not
   removed by any step, and every COMPLETED purchase refers to a lesson
   that exists. *)
C4_PurchasedLessonNeverDeleted ==
  [][ /\ \A l \in DOMAIN lessons :
           (\E p \in purchases : p.lessonId = l /\ p.status = "COMPLETED")
             => l \in DOMAIN lessons'
      /\ \A p \in purchases' :
           p.status = "COMPLETED" => p.lessonId \in DOMAIN lessons' ]_vars

(* an ADMIN has asked to delete a lesson that has a COMPLETED purchase *)
C4_Witness ==
  /\ last.op = "deleteLesson"
  /\ \E s \in last.session : s.role = "ADMIN"
  /\ \E p \in purchases : p.lessonId = last.lessonId /\ p.status = "COMPLETED"
  /\ last.lessonId \in DOMAIN lessons
  /\ last.error.kind = "HasPurchases"

(* C5: the purchase test of deleteLesson and its delete act as one atomic
   step: whenever a deleteLesson call issues its delete, the lesson has no
   purchase, so no lesson is deleted with a purchase recorded before the
   delete was written. *)
C5_CheckAndDeleteAtomic ==
  [][ \A c \in CallIds :
        (calls[c].pc = "delete" /\ calls'[c].pc = "done")
          => ~\E p \in purchases : p.lessonId = calls[c].lessonId ]_vars

(* C6: updateLesson of an existing lesson passes the permission test iff
   the caller is the owner or an ADMIN; an INSTRUCTOR who is not the owner
   and a STUDENT get PermissionDenied, and an ADMIN is never refused. *)
C6_UpdatePermission ==
  [][ (last'.op = "updateLesson" /\ last'.lessonId \in DOMAIN lessons)
      => LET row == lessons[last'.lessonId]
             s == TheSession(last')
             denied == last'.error.kind = "PermissionDenied"
         IN  /\ ~denied <=> (s.uid = row.instructorId \/ s.role = "ADMIN")
             /\ (s.role = "INSTRUCTOR" /\ s.uid # row.instructorId) => denied
             /\ s.role = "STUDENT" => denied
             /\ s.role = "ADMIN" => last'.error.kind \in {"ok", "InvalidPrice"}
             /\ denied => lessons' = lessons ]_vars

(* an ADMIN has updated a lesson that another user owns *)
C6_Witness ==
  /\ last.op = "updateLesson"
  /\ last.error.kind = "ok"
  /\ last.lessonId \in DOMAIN lessons
  /\ \E s \in last.session :
       s.role = "ADMIN" /\ s.uid # lessons[last.lessonId].instructorId

(* C7: createLesson adds a lesson only for a caller whose role is
   INSTRUCTOR; an ADMIN or a STUDENT with a valid input gets
   PermissionDenied, and no call by a non-INSTRUCTOR changes the store. *)
C7_OnlyInstructorsCreate ==
  [][ last'.op = "createLesson"
      => LET s == TheSession(last')
             input == last'.input
             valid == /\ ~TitleRejected(input)
                      /\ ~DescriptionRejected(input)
                      /\ PriceInRange(input.price)
         IN  /\ s.role # "INSTRUCTOR" =>
                  /\ lessons' = lessons
                  /\ last'.error.kind # "ok"
             /\ (s.role \in {"ADMIN", "STUDENT"} /\ valid) =>
                  last'.error.kind = "PermissionDenied"
             /\ (s.role = "INSTRUCTOR" /\ valid) =>
                  /\ last'.error.kind = "ok"
                  /\ DOMAIN lessons' = DOMAIN lessons \cup {last'.lessonId}
                  /\ last'.lessonId \notin DOMAIN lessons ]_vars

(* an ADMIN with a valid input has been refused *)
C7_Witness ==
  /\ last.op = "createLesson"
  /\ \E s \in last.session : s.role = "ADMIN"
  /\ ~TitleRejected(last.input)
  /\ PriceInRange(last.input.price)
  /\ last.error.kind = "PermissionDenied"

(* C8: searchLessons hands the published filter to the repository as the
   caller gave it (present or absent) only for an INSTRUCTOR; for every other
   caller it is true and every returned lesson is published; the other
   filter fields reach the repository as given. *)
C8_SearchPublishedCoercion ==
  [][ last'.op = "searchLessons"
      => LET given == last'.input
             instructor == \E s \in last'.session : s.role = "INSTRUCTOR"
         IN  \A o \in last'.out :
               /\ instructor =>
                    /\ Has(o.searchFilters, "published") <=> Has(given, "published")
                    /\ Has(given, "published") =>
                         o.searchFilters.published = given.published
               /\ ~instructor =>
                    /\ Has(o.searchFilters, "published")
                    /\ o.searchFilters.published = TRUE
                    /\ \A i \in 1..Len(o.lessons) :
                         lessons[o.lessons[i].id].published
               /\ \A k \in OtherFilterFields :
                    /\ Has(o.searchFilters, k) <=> Has(given, k)
                    /\ Has(given, k) => o.searchFilters[k] = given[k]
               /\ last'.out # {} ]_vars

(* an ADMIN has asked for unpublished lessons while one exists, and was
   given none *)
C8_Witness ==
  /\ last.op = "searchLessons"
  /\ \E s \in last.session : s.role = "ADMIN"
  /\ Has(last.input, "published") /\ last.input.published = FALSE
  /\ \E l \in DOMAIN lessons : ~lessons[l].published
  /\ \E o \in last.out : o.searchFilters.published = TRUE /\ o.lessons = <<>>

(* C9: the price test of createLesson and of updateLesson accepts a price
   iff 100 <= price <= 99999, and a price it rejects is rejected with
   InvalidPrice, not with the validation error. *)
C9_PriceBounds ==
  /\ (probe.pc = "validateUpdates" /\ Has(probe.input, "price")) =>
       probe.error.kind =
         IF PriceInRange(probe.input.price) THEN "ok" ELSE "InvalidPrice"
  /\ (probe.pc = "validateUpdates" /\ ~Has(probe.input, "price")) =>
       probe.error.kind = "ok"
  /\ ( /\ probe.pc = "validateLessonInput"
       /\ ~TitleRejected(probe.input)
       /\ ~DescriptionRejected(probe.input) ) =>
       probe.error.kind =
         IF PriceInRange(probe.input.price) THEN "ok" ELSE "InvalidPrice"

(* the price 100000 has been rejected with InvalidPrice on creation *)
C9_Witness ==
  /\ probe.pc = "validateLessonInput"
  /\ probe.input.price = 100000
  /\ probe.error.kind = "InvalidPrice"

(* C10: validateLessonInput reports the first failure only, in the order
   title, description, price: InvalidPrice is reported only when the title
   and the description are both valid. *)
C10_ValidationOrder ==
  probe.pc = "validateLessonInput" =>
    probe.error =
      IF TitleRejected(probe.input) THEN [kind |-> "ValidationError", field |-> "title"]
      ELSE IF DescriptionRejected(probe.input)
        THEN [kind |-> "ValidationError", field |-> "description"]
      ELSE IF ~PriceInRange(probe.input.price) THEN [kind |-> "InvalidPrice", field |-> ""]
      ELSE [kind |-> "ok", field |-> ""]

(* a valid title, an over-long description and an invalid price have given
   the validation error on the description *)
C10_Witness ==
  /\ probe.pc = "validateLessonInput"
  /\ ~TitleRejected(probe.input)
  /\ DescriptionRejected(probe.input)
  /\ ~PriceInRange(probe.input.price)
  /\ probe.error = [kind |-> "ValidationError", field |-> "description"]

(* C11: getLessonById attaches userContext iff a caller is present; in it
   isPurchased is true iff the caller has a purchase record of that lesson
   whose status is COMPLETED, hasAccess equals isPurchased, and userReview is
   the caller's own review of that lesson when one exists, absent otherwise. *)
C11_UserContext ==
  [][ (last'.op = "getLessonById" /\ last'.error.kind = "ok")
      => \A o \in last'.out :
           /\ (o.userContext # {}) <=> (last'.session # {})
           /\ \A s \in last'.session : \A uc \in o.userContext :
                /\ uc.isPurchased <=>
                     \E p \in purchases : /\ p.userId = s.uid
                                          /\ p.lessonId = last'.lessonId
                                          /\ p.status = "COMPLETED"
                /\ uc.hasAccess = uc.isPurchased
                /\ uc.userReview =
                     {[id |-> r.id, rating |-> r.rating, comment |-> r.comment] :
                        r \in {x \in reviews : /\ x.userId = s.uid
                                               /\ x.lessonId = last'.lessonId}}
                /\ Cardinality(uc.userReview) <= 1
           /\ Cardinality(o.userContext) <= 1 ]_vars

(* a caller whose purchase was REFUNDED and who reviewed the lesson has been
   given isPurchased false together with the review *)
C11_Witness ==
  /\ last.op = "getLessonById"
  /\ last.error.kind = "ok"
  /\ \E s \in last.session :
       /\ \E p \in purchases : /\ p.userId = s.uid /\ p.lessonId = last.lessonId
                                /\ p.status = "REFUNDED"
       /\ \E o \in last.out : \E uc \in o.userContext :
            /\ ~uc.isPurchased
            /\ ~uc.hasAccess
            /\ \E r \in uc.userReview : r.rating = 5
  /\ \E r \in reviews : r.lessonId = last.lessonId /\ r.userId = "i1"

(* C12: a lesson made by createLesson starts unpublished, and the published
   flag of an existing lesson changes only in a successful updateLesson step
   on that lesson whose input carries published and whose caller is the
   lesson's owner or an ADMIN; no other step and no failed call changes it. *)
C12_PublicationLifecycle ==
  [][ /\ (last'.op = "createLesson" /\ last'.error.kind = "ok") =>
           /\ last'.lessonId \in DOMAIN lessons' \ DOMAIN lessons
           /\ ~lessons'[last'.lessonId].published
      /\ \A l \in DOMAIN lessons' \ DOMAIN lessons : ~lessons'[l].published
      /\ \A l \in DOMAIN lessons \cap DOMAIN lessons' :
           lessons'[l].published # lessons[l].published =>
             /\ last'.op = "updateLesson"
             /\ last'.lessonId = l
             /\ last'.error.kind = "ok"
             /\ Has(last'.input, "published")
             /\ lessons'[l].published = last'.input.published
             /\ \E s \in last'.session :
                  s.uid = lessons[l].instructorId \/ s.role = "ADMIN"
      /\ last'.error.kind # "ok" => lessons' = lessons ]_vars

(* an ADMIN who is not the owner has taken a lesson back to Draft *)
C12_Witness ==
  /\ last.op = "updateLesson"
  /\ last.error.kind = "ok"
  /\ Has(last.input, "published") /\ last.input.published = FALSE
  /\ last.lessonId \in DOMAIN lessons
  /\ ~lessons[last.lessonId].published
  /\ \E s \in last.session :
       s.role = "ADMIN" /\ s.uid # lessons[last.lessonId].instructorId

(* C13: getLessonsByInstructor returns exactly the lessons of instructorId
   that are published, together with the unpublished ones iff
   includeUnpublished is true and the caller is present and is that
   instructor or an ADMIN; in every other case every returned lesson is
   published; every returned lesson belongs to instructorId. *)
C13_InstructorLessonsVisibility ==
  [][ last'.op = "getLessonsByInstructor"
      => LET instructorId == last'.input.instructorId
             allowed == /\ last'.input.includeUnpublished
                        /\ \E s \in last'.session :
                             s.uid = instructorId \/ s.role = "ADMIN"
         IN  /\ last'.error.kind = "ok"
             /\ \E o \in last'.out :
                  /\ {o[i].id : i \in 1..Len(o)} =
                       {l \in DOMAIN lessons :
                          /\ lessons[l].instructorId = instructorId
                          /\ allowed \/ lessons[l].published}
                  /\ \A i \in 1..Len(o) :
                       /\ o[i].lesson = lessons[o[i].id]
                       /\ o[i].lesson.instructorId = instructorId
                       /\ ~allowed => o[i].lesson.published
                  /\ \A i, j \in 1..Len(o) : i # j => o[i].id # o[j].id ]_vars

(* another instructor has asked with the flag set for the lessons of an
   instructor who has an unpublished one, and was not given it *)
C13_Witness ==
  /\ last.op = "getLessonsByInstructor"
  /\ last.input.includeUnpublished
  /\ \E s \in last.session :
       s.role = "INSTRUCTOR" /\ s.uid # last.input.instructorId
  /\ \E l \in DOMAIN lessons :
       /\ lessons[l].instructorId = last.input.instructorId
       /\ ~lessons[l].published
       /\ \A o \in last.out : \A i \in 1..Len(o) : o[i].id # l

(* C14: concurrent updateLesson calls on one lesson are last-writer-wins:
   the check of a call by the owner or an ADMIN passes whatever the other
   call has done, the write of a call that passed its check is never
   rejected, and each write sets exactly the fields its input carries and
   leaves every other field as the previous write left it, so that a field's
   stored value is that of the last write that set it. *)
C14_LastWriterWins ==
  [][ \A c \in CallIds :
        /\ (calls[c].pc = "idle" /\ calls'[c].pc # "idle"
              /\ calls'[c].lessonId \in DOMAIN lessons) =>
             LET row == lessons[calls'[c].lessonId]
                 s == calls'[c].session
             IN  (s.uid = row.instructorId \/ s.role = "ADMIN") =>
                   /\ calls'[c].pc = "update"
                   /\ calls'[c].error.kind = "ok"
        /\ (calls[c].pc = "update" /\ calls'[c].pc = "done") =>
             LET l == calls[c].lessonId
                 input == calls[c].input
             IN  /\ calls'[c].error.kind = "ok"
                 /\ \A f \in DOMAIN lessons[l] :
                      lessons'[l][f] =
                        IF ~Has(input, f) THEN lessons[l][f]
                        ELSE IF f \in {"description", "category"} THEN {input[f]}
                        ELSE input[f]
                 /\ \A k \in DOMAIN lessons \ {l} : lessons'[k] = lessons[k] ]_vars

(* the owner and an ADMIN have both updated one lesson; the price is the one
   of the update that also set the title, the flag is the other update's *)
C14_Witness ==
  /\ calls["c1"].pc = "done" /\ calls["c2"].pc = "done"
  /\ calls["c1"].error.kind = "ok" /\ calls["c2"].error.kind = "ok"
  /\ calls["c1"].lessonId = calls["c2"].lessonId
  /\ calls["c1"].lessonId \in DOMAIN lessons
  /\ calls["c1"].session.uid = lessons[calls["c1"].lessonId].instructorId
  /\ calls["c2"].session.role = "ADMIN"
  /\ Has(calls["c1"].input, "published")
  /\ Has(calls["c2"].input, "title")
  /\ lessons[calls["c1"].lessonId].published
  /\ lessons[calls["c1"].lessonId].title = <<"n">>
  /\ lessons[calls["c1"].lessonId].price = 100

(* C15: every lesson error answered by the application's error handler
   reaches the client with its own status: NotFound 404, NotPublished 403,
   PermissionDenied 403, ValidationError 400, InvalidPrice 400 with a code
   other than the validation error's, HasPurchases 409; none is answered
   with 500. *)
C15_DomainErrorsKeepTheirStatus ==
  (probe.pc = "responded" /\ probe.error.kind \in LessonErrorKinds) =>
    /\ probe.response.status =
         CASE probe.error.kind = "NotFound" -> 404
           [] probe.error.kind = "NotPublished" -> 403
           [] probe.error.kind = "PermissionDenied" -> 403
           [] probe.error.kind = "ValidationError" -> 400
           [] probe.error.kind = "InvalidPrice" -> 400
           [] probe.error.kind = "HasPurchases" -> 409
           [] OTHER -> probe.response.status
    /\ probe.response.status # 500
    /\ probe.error.kind = "InvalidPrice" =>
         probe.err.code # LessonErrorCode["ValidationError"]

(* C16: POST /api/lessons checks authentication, then the role, then the
   body, then calls the service: without a valid credential the answer is
   401 whatever the body, for an authenticated caller who is not an
   instructor 403 whatever the body, for an instructor with an invalid body
   400, and only an instructor with a valid body gets 201 and a lesson whose
   published flag is false. *)
C16_PostLessonsOrder ==
  last.op = "POST /api/lessons" =>
    LET body == last.input.body
        user == RequestUser(last.input.credential)
        valid == /\ ~TitleRejected(body)
                 /\ ~DescriptionRejected(body)
                 /\ Has(body, "price") /\ PriceInRange(body.price)
    IN  \A r \in last.out :
          /\ user = {} => r.status = 401
          /\ (\E u \in user : u.role # "INSTRUCTOR") => r.status = 403
          /\ (\E u \in user : u.role = "INSTRUCTOR") =>
               IF valid
                 THEN /\ r.status = 201
                      /\ r.body.data.published = FALSE
                      /\ last.lessonId \in DOMAIN lessons
                      /\ ~lessons[last.lessonId].published
                 ELSE r.status = 400
          /\ r.status = 201 => (valid /\ \E u \in user : u.role = "INSTRUCTOR")

(* C17: a search answered with page p and page size s over a store that
   does not change: total is the number of lessons matching the filters
   after the role's coercion of published, whatever limit and offset are;
   the number of items is min(s, max(0, total - (p-1)*s)); hasMore is true
   iff p*s < total, that is iff a matching lesson lies beyond the page. *)
C17_Pagination ==
  (last.op = "GET /api/lessons" /\ \E r \in last.out : r.status = 200) =>
    LET query == last.input
        p == IF Has(query, "page") THEN query.page ELSE 1
        s == IF Has(query, "pageSize") THEN query.pageSize ELSE 20
        instructor == \E u \in last.session : u.role = "INSTRUCTOR"
        matching == {l \in DOMAIN lessons :
                       IF ~instructor THEN lessons[l].published
                       ELSE Has(query, "published") =>
                              lessons[l].published = query.published}
        total == Cardinality(matching)
        rest == total - (p - 1) * s
        expected == IF rest <= 0 THEN 0 ELSE IF rest < s THEN rest ELSE s
    IN  \A r \in last.out :
          LET data == r.body.data
          IN  /\ data.total = total
              /\ Len(data.items) = expected
              /\ data.hasMore <=> (p * s < total)
              /\ data.hasMore <=> ((p - 1) * s + Len(data.items) < total)
              /\ \A i \in 1..Len(data.items) : data.items[i].id \in matching
              /\ \A i, j \in 1..Len(data.items) :
                   i # j => data.items[i].id # data.items[j].id

(* the second page of size 1 over three published lessons: one item, total
   3, more to come *)
C17_Witness ==
  /\ last.op = "GET /api/lessons"
  /\ Has(last.input, "page") /\ last.input.page = 2
  /\ Has(last.input, "pageSize") /\ last.input.pageSize = 1
  /\ Cardinality({l \in DOMAIN lessons : lessons[l].published}) = 3
  /\ \E r \in last.out :
       /\ r.status = 200
       /\ Len(r.body.data.items) = 1
       /\ r.body.data.total = 3
       /\ r.body.data.hasMore

(* C18: a signed video URL of lesson L is given to user U only if U has a
   COMPLETED purchase of L; an authenticated user without one is answered
   with 403 and no URL. *)
C18_VideoRequiresCompletedPurchase ==
  (last.op = "GET /api/videos/access" /\ last.lessonId \in DOMAIN lessons) =>
    \A u \in last.session : \A r \in last.out :
      IF \E p \in purchases : /\ p.userId = u.uid
                               /\ p.lessonId = last.lessonId
                               /\ p.status = "COMPLETED"
        THEN r.status = 200 /\ Has(r.body, "url")
        ELSE r.status = 403 /\ ~Has(r.body, "url")

(* C19: the checkout session of lesson L charges L's price as the unit
   amount and takes floor(price * 15 / 100) as the application fee, for
   every price in [100, 99999]. *)
C19_CheckoutChargesLessonPrice ==
  (last.op = "POST /api/payments/checkout" /\ last.lessonId \in DOMAIN lessons) =>
    \A r \in last.out :
      r.status = 200 =>
        /\ r.session.unit_amount = lessons[last.lessonId].price
        /\ r.session.application_fee_amount =
             (lessons[last.lessonId].price * 15) \div 100

(* C20: the outcome of every policy decision is a function of the stored
   lessons and purchases, the caller and the arguments alone: getLessonById,
   the published filter of searchLessons, getLessonsByInstructor and the
   checks of updateLesson, deleteLesson and createLesson give the outcome
   that function gives whatever calls were made before, and a call repeated
   on an unchanged store gives the same answer again. *)
C20_OutcomeDependsOnInputsOnly ==
  [][ LET op == last'.op
          l == last'.lessonId
          input == last'.input
          present == l \in DOMAIN lessons
          mayMutate == \E s \in last'.session :
                         s.uid = lessons[l].instructorId \/ s.role = "ADMIN"
          instructor == \E s \in last'.session : s.role = "INSTRUCTOR"
          expected ==
            CASE op = "getLessonById" ->
                   IF ~present THEN "NotFound"
                   ELSE IF ~lessons[l].published /\ ~mayMutate THEN "NotPublished"
                   ELSE "ok"
              [] op = "updateLesson" ->
                   IF ~present THEN "NotFound"
                   ELSE IF ~mayMutate THEN "PermissionDenied"
                   ELSE IF Has(input, "price") /\ ~PriceInRange(input.price)
                     THEN "InvalidPrice"
                   ELSE "ok"
              [] op = "deleteLesson" ->
                   IF ~present THEN "NotFound"
                   ELSE IF ~mayMutate THEN "PermissionDenied"
                   ELSE IF \E p \in purchases : p.lessonId = l THEN "HasPurchases"
                   ELSE "ok"
              [] op = "createLesson" ->
                   IF TitleRejected(input) \/ DescriptionRejected(input)
                     THEN "ValidationError"
                   ELSE IF ~PriceInRange(input.price) THEN "InvalidPrice"
                   ELSE IF ~instructor THEN "PermissionDenied"
                   ELSE "ok"
              [] OTHER -> "ok"
      IN  /\ last'.error.kind = expected
          /\ op = "searchLessons" =>
               \A o \in last'.out :
                 /\ Has(o.searchFilters, "published") <=>
                      (~instructor \/ Has(input, "published"))
                 /\ Has(o.searchFilters, "published") =>
                      o.searchFilters.published =
                        IF instructor THEN input.published ELSE TRUE
          /\ op = "getLessonsByInstructor" =>
               \A o \in last'.out :
                 {o[i].id : i \in 1..Len(o)} =
                   {k \in DOMAIN lessons :
                      /\ lessons[k].instructorId = input.instructorId
                      /\ \/ lessons[k].published
                         \/ /\ input.includeUnpublished
                            /\ \E s \in last'.session :
                                 s.uid = input.instructorId \/ s.role = "ADMIN"}
          /\ ( /\ op = last.op
               /\ last'.session = last.session
               /\ l = last.lessonId
               /\ input = last.input
               /\ lessons' = lessons
               /\ purchases' = purchases
               /\ op \in {"getLessonById", "searchLessons",
                           "getLessonsByInstructor"} )
               => (last'.error = last.error /\ last'.out = last.out) ]_vars

(* a student who holds a COMPLETED purchase of a lesson that has since been
   taken back to Draft is refused it as any other student is *)
C20_Witness ==
  /\ last.op = "getLessonById"
  /\ last.error.kind = "NotPublished"
  /\ \E s \in last.session :
       /\ s.role = "STUDENT"
       /\ \E p \in purchases : /\ p.userId = s.uid
                                /\ p.lessonId = last.lessonId
                                /\ p.status = "COMPLETED"
  /\ last.lessonId \in DOMAIN lessons
  /\ lessons[last.lessonId].title = <<"n">>

Alphabet == <<"a", "b", "c">>

LetterIndex(ch) == CHOOSE k \in 1..Len(Alphabet) : Alphabet[k] = ch

(* s sorts no later than t in dictionary order *)
TitleAtMost(s, t) ==
  \/ s = t
  \/ \E k \in 1..(Len(s) + 1) :
       /\ \A i \in 1..(k - 1) : i <= Len(t) /\ s[i] = t[i]
       /\ \/ k = Len(s) + 1 /\ Len(t) >= k
          \/ k <= Len(s) /\ k <= Len(t) /\ LetterIndex(s[k]) < LetterIndex(t[k])

KeyAtMost(x, y, key) ==
  CASE key = "price" -> x.price <= y.price
    [] key = "title" -> TitleAtMost(x.title, y.title)
    [] OTHER -> x.id <= y.id

(* the summaries come in the order of the key, in the direction *)
SortedItems(items, key, direction) ==
  \A i, j \in 1..Len(items) :
    i < j => IF direction = "asc" THEN KeyAtMost(items[i], items[j], key)
                                  ELSE KeyAtMost(items[j], items[i], key)

(* C21: search results come ordered by the requested sort key when it is
   createdAt, price or title, in the requested direction; every other
   requested key (purchaseCount, averageRating, and rating and purchases of
   the HTTP query) gives the order by createdAt in the requested direction
   and never an error. *)
C21_SortOrder ==
  /\ (last.op = "searchLessons" /\ Has(last.input, "sort")) =>
       LET sort == last.input.sort
           key == IF sort.field \in {"price", "title"} THEN sort.field
                                                        ELSE "createdAt"
       IN  /\ last.error.kind = "ok"
           /\ last.out # {}
           /\ \A o \in last.out :
                /\ SortedItems(o.lessons, key, sort.direction)
                /\ \A i, j \in 1..Len(o.lessons) :
                     i # j => o.lessons[i].id # o.lessons[j].id
                /\ Len(o.lessons) =
                     IF Has(last.input.filters, "limit")
                          /\ last.input.filters.limit < Cardinality(DOMAIN lessons)
                       THEN last.input.filters.limit
                       ELSE Cardinality(DOMAIN lessons)
                /\ \A i \in 1..Len(o.lessons) : \A l \in DOMAIN lessons :
                     (\A k \in 1..Len(o.lessons) : o.lessons[k].id # l) =>
                       IF sort.direction = "asc"
                         THEN KeyAtMost(o.lessons[i],
                                [id |-> l, title |-> lessons[l].title,
                                 price |-> lessons[l].price], key)
                         ELSE KeyAtMost([id |-> l, title |-> lessons[l].title,
                                         price |-> lessons[l].price],
                                        o.lessons[i], key)
  /\ ( /\ last.op = "GET /api/lessons"
       /\ Has(last.input, "sortBy")
       /\ last.input.sortBy \in {"created", "price", "rating", "purchases"} ) =>
       LET key == IF last.input.sortBy = "price" THEN "price" ELSE "createdAt"
           direction == IF Has(last.input, "sortOrder") THEN last.input.sortOrder
                                                        ELSE "desc"
       IN  /\ last.out # {}
           /\ \A r \in last.out :
                /\ r.status = 200
                /\ SortedItems(r.body.data.items, key, direction)
                /\ Len(r.body.data.items) = Cardinality(DOMAIN lessons)

(* a search sorted by averageRating, ascending, over three lessons whose
   prices and titles run against their creation order has returned them in
   creation order *)
C21_Witness ==
  /\ last.op = "searchLessons"
  /\ Has(last.input, "sort")
  /\ last.input.sort = [field |-> "averageRating", direction |-> "asc"]
  /\ DOMAIN lessons = {1, 2, 3}
  /\ lessons[1].title = <<"a">> /\ lessons[1].price = 2999
  /\ lessons[2].title = <<"b", "a">> /\ lessons[2].price = 100
  /\ lessons[3].title = <<"b">>
  /\ \E o \in last.out :
       /\ Len(o.lessons) = 3
       /\ \A i \in 1..3 : o.lessons[i].id = i

(* C22: updateLesson answers NotFound when the lesson does not exist, else
   PermissionDenied when the caller is neither owner nor ADMIN, else
   InvalidPrice when a price is supplied and is out of range; so a caller
   without rights gets PermissionDenied even with an invalid price, and a
   lesson that does not exist gives NotFound to every caller.  When the call
   succeeds, the fields the input does not carry keep their stored values. *)
C22_UpdateDecisionOrder ==
  [][ last'.op = "updateLesson"
      => LET l == last'.lessonId
             input == last'.input
             rights == \E s \in last'.session :
                         s.uid = lessons[l].instructorId \/ s.role = "ADMIN"
             badPrice == Has(input, "price") /\ ~PriceInRange(input.price)
         IN  /\ l \notin DOMAIN lessons =>
                  /\ last'.error.kind = "NotFound"
                  /\ lessons' = lessons
             /\ (l \in DOMAIN lessons /\ ~rights) =>
                  /\ last'.error.kind = "PermissionDenied"
                  /\ lessons' = lessons
             /\ (l \in DOMAIN lessons /\ rights /\ badPrice) =>
                  /\ last'.error.kind = "InvalidPrice"
                  /\ lessons' = lessons
             /\ (l \in DOMAIN lessons /\ rights /\ ~badPrice) =>
                  /\ last'.error.kind = "ok"
                  /\ DOMAIN lessons' = DOMAIN lessons
                  /\ \A f \in DOMAIN lessons[l] :
                       ~Has(input, f) => lessons'[l][f] = lessons[l][f]
                  /\ Has(input, "published") =>
                       lessons'[l].published = input.published
                  /\ Has(input, "price") => lessons'[l].price = input.price
                  /\ Has(input, "title") => lessons'[l].title = input.title ]_vars

(* a student has sent an out-of-range price for an existing lesson and was
   answered PermissionDenied; the lesson still has the title and price it
   was created with *)
C22_Witness ==
  /\ last.op = "updateLesson"
  /\ \E s \in last.session : s.role = "STUDENT"
  /\ Has(last.input, "price") /\ ~PriceInRange(last.input.price)
  /\ last.lessonId \in DOMAIN lessons
  /\ last.error.kind = "PermissionDenied"
  /\ lessons[last.lessonId].price = 100

(* C23: in the Stripe webhook handler a request whose signature does not
   verify fails with a 400 error and is never dispatched;
   handleSuccessfulPayment runs only for an event that passed the signature
   verification and has type checkout.session.completed; every other
   verified event type is acknowledged without any payment handling. *)
C23_WebhookDispatch ==
  /\ last.op = "handleWebhook" =>
       LET genuine == last.input.body.raw /\ last.input.signature = {"signed"}
           type == last.input.body.event.type
       IN  \A r \in last.out :
             /\ ~genuine =>
                  /\ \E e \in r.thrown : e.instanceOfAppError /\ e.statusCode = 400
                  /\ r.handled = {}
                  /\ r.logged = {}
             /\ r.handled # {} =>
                  (genuine /\ type = "checkout.session.completed")
             /\ (genuine /\ type = "checkout.session.completed") =>
                  r.handled = {last.input.body.event}
             /\ (genuine /\ type # "checkout.session.completed") =>
                  /\ r.thrown = {}
                  /\ r.handled = {}
                  /\ \A g \in r.logged : g.message # "payment.successful"
  /\ last.op = "POST /api/payments/webhook" =>
       \A r \in last.out :
         /\ last.input.signature # {"signed"} =>
              (r.status = 400 /\ r.handled = {} /\ ~Has(r.body, "received"))
         /\ r.handled # {} =>
              /\ last.input.signature = {"signed"}
              /\ last.input.body.event.type = "checkout.session.completed"
         /\ (r.status = 200 /\ last.input.body.event.type # "checkout.session.completed")
              => (r.handled = {} /\ r.body = [received |-> TRUE])

(* a forged signature on a checkout.session.completed event has been refused
   with 400 and nothing was handled *)
C23_Witness ==
  /\ last.op = "handleWebhook"
  /\ last.input.signature = {"forged"}
  /\ last.input.body.raw
  /\ last.input.body.event.type = "checkout.session.completed"
  /\ \E r \in last.out :
       /\ r.handled = {}
       /\ \E e \in r.thrown : e.statusCode = 400

(* C24: every invocation of run-tests, test-specific with a file given and
   test-coverage calls stopTestServices before it returns its result or
   propagates its error, on the success path and on every failure path
   (services failing to start, the test command failing); a failure inside
   stopTestServices is swallowed and never replaces the tool's own result or
   error. *)
C24_StopBeforeReturn ==
  \A c \in CallIds :
    ( /\ calls[c].pc = "returned"
      /\ ~(calls[c].tool = "test-specific" /\ ~Has(calls[c].args, "file")) ) =>
      LET trace == calls[c].trace
      IN  /\ Len(trace) >= 2
          /\ trace[1] = "startTestServices"
          /\ trace[Len(trace)] = "stopTestServices"
          /\ Cardinality({i \in 1..Len(trace) : trace[i] = "stopTestServices"}) = 1
          /\ DownFailed \notin calls[c].error
          /\ IF calls[c].stdout # {}
                THEN /\ calls[c].error = {}
                     /\ \E r \in calls[c].result : r.stdout \in calls[c].stdout
                ELSE /\ calls[c].result = {}
                     /\ calls[c].error # {}
                     /\ calls[c].error \subseteq
                          IF Len(trace) = 2
                            THEN StartOutcomes \ {"ok"}
                            ELSE {"Command failed: pnpm test"}

(* a run whose test command failed has called stopTestServices, whose
   docker-compose down failed too, and has thrown the test command's error *)
C24_Witness ==
  \E c \in CallIds :
    /\ calls[c].pc = "returned"
    /\ calls[c].tool = "run-tests"
    /\ calls[c].trace = <<"startTestServices", "execAsync", "stopTestServices">>
    /\ calls[c].downFailed
    /\ calls[c].error = {"Command failed: pnpm test"}

(* the lessons a read operation has handed to its caller *)
Disclosed(r) ==
  CASE r.op = "getLessonById" -> {o.lesson.id : o \in r.out}
    [] r.op = "searchLessons" ->
         UNION {{o.lessons[i].id : i \in 1..Len(o.lessons)} : o \in r.out}
    [] r.op = "getLessonsByInstructor" ->
         UNION {{o[i].id : i \in 1..Len(o)} : o \in r.out}
    [] OTHER -> {}

(* C25: no read operation (getLessonById, searchLessons,
   getLessonsByInstructor) hands an unpublished lesson to a caller who is
   neither the lesson's owner nor an ADMIN; in particular an INSTRUCTOR who
   does not own the lesson never receives it in search results, whatever
   published filter that instructor supplies. *)
C25_UnpublishedNeverDisclosed ==
  [][ \A l \in Disclosed(last') :
        (l \in DOMAIN lessons /\ ~lessons[l].published) =>
          \E s \in last'.session :
            s.uid = lessons[l].instructorId \/ s.role = "ADMIN" ]_vars

(* C26: in every state reached by createLesson and updateLesson calls every
   stored lesson satisfies the rules of creation: its title is non-empty
   after trimming and at most 200 characters, its description (if any) is at
   most 2000 characters, and its price lies in [100, 99999]. *)
C26_StoredLessonsValid ==
  \A l \in DOMAIN lessons :
    /\ ~AllWhitespace(lessons[l].title)
    /\ Len(lessons[l].title) <= 200
    /\ \A d \in lessons[l].description : Len(d) <= 2000
    /\ PriceInRange(lessons[l].price)

(* C27: a lesson's owner is fixed at creation: createLesson stores the
   calling session's uid as the owner, overriding any instructorId carried
   in the input, and no updateLesson call by any caller changes the owner of
   an existing lesson. *)
C27_OwnerFixedAtCreation ==
  [][ /\ (last'.op = "createLesson" /\ last'.error.kind = "ok") =>
           /\ last'.lessonId \in DOMAIN lessons' \ DOMAIN lessons
           /\ lessons'[last'.lessonId].instructorId = TheSession(last').uid
      /\ \A l \in DOMAIN lessons' \ DOMAIN lessons :
           \E s \in last'.session : lessons'[l].instructorId = s.uid
      /\ \A l \in DOMAIN lessons \cap DOMAIN lessons' :
           lessons'[l].instructorId = lessons[l].instructorId ]_vars

(* an ADMIN has renamed, over HTTP, a lesson that instructor i1 created from
   an input naming i2, with a body that names i2 as the instructor; the
   lesson is still i1's *)
C27_Witness ==
  /\ last.op = "PUT /api/lessons"
  /\ last.session = {UserSession("a1")}
  /\ Has(last.input.body, "instructorId") /\ last.input.body.instructorId = "i2"
  /\ \E r \in last.out : r.status = 200
  /\ last.lessonId \in DOMAIN lessons
  /\ lessons[last.lessonId].title = <<"n">>
  /\ lessons[last.lessonId].instructorId = "i1"

CompletedCount(l) ==
  Cardinality({p \in purchases : p.lessonId = l /\ p.status = "COMPLETED"})

(* C28: the purchase count is one quantity wherever it is used: the count
   deleteLesson compares with zero, stats.purchaseCount of getLessonById and
   stats.purchaseCount of the searchLessons summaries are equal for every
   lesson in every state, each being the number of the lesson's purchase
   records whose status is COMPLETED. *)
C28_OnePurchaseCount ==
  [][ /\ (last'.op = "getLessonById" /\ last'.error.kind = "ok") =>
           \A o \in last'.out :
             o.lesson.stats.purchaseCount = CompletedCount(last'.lessonId)
      /\ last'.op = "searchLessons" =>
           \A o \in last'.out : \A i \in 1..Len(o.lessons) :
             o.lessons[i].purchaseCount = CompletedCount(o.lessons[i].id)
      /\ ( /\ last'.op = "deleteLesson"
           /\ last'.error.kind \notin {"NotFound", "PermissionDenied"} ) =>
           (last'.error.kind = "HasPurchases" <=> CompletedCount(last'.lessonId) > 0)
    ]_vars

FailureKinds ==
  {"NotFound", "PermissionDenied", "ValidationError", "InvalidPrice", "HasPurchases"}

(* C29: operations that fail, and read operations, leave the store as it
   was: a createLesson, updateLesson or deleteLesson call that ends in
   NotFound, PermissionDenied, ValidationError, InvalidPrice or HasPurchases
   changes no lesson, purchase or review record, and getLessonById,
   searchLessons and getLessonsByInstructor change no record whether they
   succeed or fail. *)
C29_FailuresAndReadsChangeNothing ==
  [][ ( \/ /\ last'.op \in {"createLesson", "updateLesson", "deleteLesson"}
           /\ last'.error.kind \in FailureKinds
        \/ last'.op \in {"getLessonById", "searchLessons", "getLessonsByInstructor"} )
      => /\ lessons' = lessons
         /\ purchases' = purchases
         /\ reviews' = reviews
         /\ nextId' = nextId ]_vars

(* the owner's update with an out-of-range price has been refused with
   InvalidPrice on a lesson that has a purchase and a review; the lesson
   still has the price it was created with *)
C29_Witness ==
  /\ last.op = "updateLesson"
  /\ last.error.kind = "InvalidPrice"
  /\ last.lessonId \in DOMAIN lessons
  /\ \E s \in last.session : s.uid = lessons[last.lessonId].instructorId
  /\ lessons[last.lessonId].price = 100
  /\ ~lessons[last.lessonId].published
  /\ \E p \in purchases : p.lessonId = last.lessonId
  /\ \E r \in reviews : r.lessonId = last.lessonId

(* a deleteLesson call that has returned true *)
DeleteReturnedTrue(call) ==
  /\ call.pc = "done"
  /\ ~Has(call, "input")
  /\ call.error.kind = "ok"

(* C30: when an updateLesson call has passed its existence and permission
   checks and a concurrent deleteLesson of the same lesson commits before the
   update's write, the write fails and the lesson stays deleted; no
   interleaving of update and delete brings a deleted lesson back or leaves a
   partially updated one, and at most one of two concurrent deleteLesson
   calls on one lesson returns true. *)
C30_UpdateAfterDeleteFails ==
  [][ /\ \A c \in CallIds :
           (calls[c].pc = "update" /\ calls'[c].pc = "done") =>
             LET l == calls[c].lessonId
                 input == calls[c].input
             IN  IF l \notin DOMAIN lessons
                   THEN /\ calls'[c].error.kind \notin {"ok"}
                        /\ lessons' = lessons
                   ELSE /\ calls'[c].error.kind = "ok"
                        /\ DOMAIN lessons' = DOMAIN lessons
                        /\ \A f \in DOMAIN lessons[l] :
                             lessons'[l][f] =
                               IF ~Has(input, f) THEN lessons[l][f]
                               ELSE IF f \in {"description", "category"}
                                 THEN {input[f]}
                               ELSE input[f]
      /\ \A l \in LessonIds :
           (l < nextId /\ l \notin DOMAIN lessons) => l \notin DOMAIN lessons'
      /\ \A l \in DOMAIN lessons : l \in DOMAIN lessons' =>
           DOMAIN lessons'[l] = DOMAIN lessons[l]
      /\ ~( /\ DeleteReturnedTrue(calls'["c1"])
            /\ DeleteReturnedTrue(calls'["c2"])
            /\ calls'["c1"].lessonId = calls'["c2"].lessonId ) ]_vars

(* an update by an ADMIN passed its checks, the owner's delete of the same
   lesson committed, and the update's write then failed; the lesson is gone *)
C30_Witness ==
  \E c, e \in CallIds :
    /\ calls[c].pc = "done" /\ Has(calls[c], "input")
    /\ calls[c].session.role = "ADMIN"
    /\ calls[c].error = DatabaseError
    /\ DeleteReturnedTrue(calls[e])
    /\ calls[e].session.uid = "i1"
    /\ calls[e].lessonId = calls[c].lessonId
    /\ calls[c].lessonId \notin DOMAIN lessons
    /\ calls[c].lessonId < nextId

====
